---------------------------- MODULE Spec2Model ----------------------------
(***************************************************************************)
(* A model of the HTTP caching proxy (docker-deploy/src): the response     *)
(* parser's cache metadata (response.cpp), the shared LRU cache            *)
(* (cache.cpp) and the GET transaction of the request handler (proxy.cpp). *)
(*                                                                         *)
(* Conventions.                                                            *)
(*  - A std::string that may be empty is a sequence: <<>> is the empty     *)
(*    string, <<x>> a non-empty one.  An HTTP-date string <<d>> names the  *)
(*    instant d (in seconds, GMT) that its text spells out.                *)
(*  - A Response* is an identifier: NULL or 1..MaxResp.  heap maps every   *)
(*    allocated identifier to the fields of its object, freed holds the    *)
(*    identifiers whose object has been deleted.                           *)
(*  - Every section of Cache that runs under cache_mutex is one action:    *)
(*    the lock is free between any two actions.                            *)
(***************************************************************************)
EXTENDS Integers, Sequences, FiniteSets, TLC

(***************************************************************************)
(* Bounds of the model.                                                    *)
(***************************************************************************)
MaxTime == 3      \* the clock runs from 1 to MaxTime
MaxResp == 2      \* Response objects allocated in one behaviour
MaxEntries == 2   \* the cache is constructed with max_entries in 0..MaxEntries
MaxCleanSec == 1  \* ... and with clean_sec = MaxCleanSec
MaxReq == 3       \* requests received in one behaviour
MaxPuts == 4      \* puts in one behaviour of SpecLRU
MaxHandlers == 3  \* handler threads spawned in one behaviour of SpecStop

Threads == {"t1", "t2"}
URLS == {"x.test/a", "y.test/b"}
\* the thread that is inside Cache::get while others call put (SpecCache)
Getters == {"t1"}

(***************************************************************************)
(* util.hpp                                                                *)
(***************************************************************************)
CACHE_PUBLIC == 1
CACHE_PRIVATE == 2
CACHE_IMMUTABLE == 3
CACHE_MUST_REVALIDATE == 4
CACHE_NO_STORE == 5
CACHE_NORMAL == 6

NOT_IN_CACHE == "NOT_IN_CACHE"
EXPIRED == "EXPIRED"
REQUIRES_VALIDATION == "REQUIRES_VALIDATION"
VALID == "VALID"
NOT_CACHEABLE == "NOT_CACHEABLE"
WILL_EXPIRE == "WILL_EXPIRE"
REVALIDATION == "REVALIDATION"

NULL == 0
\* chrono::system_clock::time_point{} (a value-initialised time_point)
Epoch == 0

VARIABLES
    now,              \* chrono::system_clock::now(), in seconds
    tz,               \* the zone offset mktime applies
    max_entries,      \* Cache::max_entries
    cleanup_interval, \* Cache::cleanup_interval
    cache_map,        \* Cache::cache_map: url -> CacheEntry
    lru_list,         \* Cache::lru_list, front first
    last_cleanup,     \* Cache::last_cleanup
    heap,             \* the Response objects allocated so far, by identifier
    freed,            \* the identifiers of the Response objects deleted
    pc,               \* per thread: where it is
    req_url,          \* per thread: the key of its get (full_url)
    cac_res,          \* per thread: Cache::get's local cac_res
    cache_res,        \* per thread: the CacheStatus that get wrote
    cached_resp,      \* per thread: the pointer that get returned
    request_count,    \* Proxy::request_count
    txn,              \* per thread: what its transaction did so far
    request,          \* per thread: the Request parsed from the client's bytes
    server,           \* Proxy::running, Proxy::threads and the handler threads
    tunnel,           \* per thread: the byte streams of its CONNECT tunnel
    call,             \* the function applied last, its arguments and its value
    hist              \* observation only: history of the calls

cacheVars == <<cache_map, lru_list, last_cleanup, freed>>
getVars == <<pc, req_url, cac_res, cache_res, cached_resp>>
envVars == <<tz, max_entries, cleanup_interval>>
vars == <<now, tz, max_entries, cleanup_interval, cache_map, lru_list,
          last_cleanup, heap, freed, pc, req_url, cac_res, cache_res,
          cached_resp, request_count, txn, request, server, tunnel, call,
          hist>>

(***************************************************************************)
(* response.cpp: dates                                                     *)
(***************************************************************************)
\* get_time fills tm with the fields of the text, mktime reads them as local
\* time: the instant is the one named, less the zone offset.
parseHttpDate(http_date, zone) == http_date[1] - zone

\* gmtime + put_time: the text names the instant in GMT.
formatHTTPDate(tp) == <<tp>>

timeDifference(time1, time2, zone) ==
    parseHttpDate(time2, zone) - parseHttpDate(time1, zone)

\* C++ integer division truncates toward zero.
CDiv(a, b) == IF a >= 0 THEN a \div b ELSE -((-a) \div b)

(***************************************************************************)
(* response.cpp: Cache-Control.  A directive is [k |-> name, v |-> arg]:   *)
(* v is <<n>> when the text after the name reads as the integer n (stoi    *)
(* succeeds) and <<>> when stoi or substr throws.  For a directive that is *)
(* none of the named ones, v is what stoi(directive.substr(9)) makes of    *)
(* it.                                                                     *)
(***************************************************************************)
Dir(k, v) == [k |-> k, v |-> v]

NewResponse ==
    [status_code |-> 0, no_store |-> FALSE, no_cache |-> FALSE,
     must_revalidate |-> FALSE, max_age |-> -1, cache_mode |-> 0,
     cache_visibility |-> CACHE_PUBLIC, issmax_age |-> FALSE,
     expire_time |-> <<>>, etag |-> <<>>, last_modified |-> <<>>,
     date |-> <<>>, expires |-> <<>>, cache_control |-> <<>>,
     is_chunked |-> FALSE, content_length |-> -1, header_length |-> <<>>,
     body |-> <<>>]

\* stoi: the integer, or the exception handler's max_age = -1
StoiOrCatch(v) == IF v = <<>> THEN -1 ELSE v[1]

applyDirective(r, d) ==
    IF d.k = "no-store" THEN
        [r EXCEPT !.no_store = TRUE, !.cache_mode = CACHE_NO_STORE]
    ELSE IF d.k = "no-cache" THEN
        [r EXCEPT !.no_cache = TRUE, !.cache_mode = CACHE_MUST_REVALIDATE]
    ELSE IF d.k \in {"must-revalidate", "proxy-revalidate"} THEN
        [r EXCEPT !.must_revalidate = TRUE, !.cache_mode = CACHE_MUST_REVALIDATE]
    ELSE IF d.k = "private" THEN [r EXCEPT !.cache_visibility = CACHE_PRIVATE]
    ELSE IF d.k = "public" THEN [r EXCEPT !.cache_visibility = CACHE_PUBLIC]
    ELSE IF d.k = "max-age" THEN
        IF r.issmax_age = FALSE
            THEN [r EXCEPT !.max_age = StoiOrCatch(d.v)]
            ELSE r
    \* directive.find("s-maxage=") is converted to bool: true unless the
    \* directive starts with "s-maxage="
    ELSE IF d.k # "s-maxage" THEN
        IF r.cache_visibility = CACHE_PUBLIC
            THEN [r EXCEPT !.issmax_age = TRUE, !.max_age = StoiOrCatch(d.v)]
            ELSE r
    ELSE r

RECURSIVE applyDirectives(_, _)
applyDirectives(r, ds) ==
    IF ds = <<>> THEN r
    ELSE applyDirectives(applyDirective(r, Head(ds)), Tail(ds))

\* r.cache_control is <<>> (no header) or <<directives>>
parseCacheControl(r) ==
    IF r.cache_control = <<>> THEN r
    ELSE LET p == applyDirectives(r, r.cache_control[1])
         IN  IF ~p.no_cache /\ ~p.no_cache /\ ~p.must_revalidate
                 THEN [p EXCEPT !.cache_mode = CACHE_NORMAL]
                 ELSE p

setExpiredTime(r, zone) ==
    IF r.date # <<>> /\ r.max_age > 0 THEN
        [r EXCEPT !.expire_time =
            formatHTTPDate(parseHttpDate(r.date, zone) + r.max_age)]
    ELSE IF r.expires # <<>> THEN [r EXCEPT !.expire_time = r.expires]
    ELSE IF r.must_revalidate /\ r.date # <<>> THEN
        [r EXCEPT !.expire_time = r.date]
    ELSE IF r.cache_mode # CACHE_NO_STORE /\ r.last_modified # <<>>
            /\ r.date # <<>> THEN
        LET time_diff == timeDifference(r.last_modified, r.date, zone)
            heuristic_expire == CDiv(time_diff, 10)
        IN  [r EXCEPT !.expire_time =
                formatHTTPDate(parseHttpDate(r.date, zone) + heuristic_expire)]
    ELSE r

\* A response head as received: the status code and the headers the proxy
\* reads.
ResponseHead(status, cc, date, expires, lm, etag) ==
    [status_code |-> status, cache_control |-> cc, date |-> date,
     expires |-> expires, last_modified |-> lm, etag |-> etag]

parseResponse(h, zone) ==
    setExpiredTime(
        parseCacheControl(
            [NewResponse EXCEPT !.status_code = h.status_code,
                                !.cache_control = h.cache_control,
                                !.date = h.date,
                                !.expires = h.expires,
                                !.last_modified = h.last_modified,
                                !.etag = h.etag]),
        zone)

\* a slip: no test of the visibility
isCacheableAnyVisibility(r, isPrivateCache) ==
    IF r.status_code # 200 \/ r.cache_mode = CACHE_NO_STORE THEN FALSE
    ELSE TRUE

isCacheable(r, isPrivateCache) ==
    IF r.status_code # 200 \/ r.cache_mode = CACHE_NO_STORE THEN FALSE
    ELSE IF r.cache_visibility = CACHE_PRIVATE /\ ~isPrivateCache THEN FALSE
    ELSE TRUE

needsRevalidation(r) == r.cache_mode = CACHE_MUST_REVALIDATE \/ r.no_cache

(***************************************************************************)
(* cache.cpp.  A cache is the record of the members that cache_mutex       *)
(* guards, with the set of the Response objects deleted so far:            *)
(*   [cache_map, lru_list, last_cleanup, freed].                           *)
(* h is the heap the stored pointers point into.                           *)
(***************************************************************************)
RemoveAll(l, url) == SelectSeq(l, LAMBDA e : e # url)

Restrict(f, S) == [k \in S |-> f[k]]

\* a slip: push_front without the remove
updateLRUNoRemove(l, url) == <<url>> \o l

updateLRU(l, url) == <<url>> \o RemoveAll(l, url)

\* a slip: expired from the instant of expire_time on
isExpiredAtEqual(response, t, zone) ==
    IF response.expire_time = <<>> THEN TRUE
    ELSE t >= parseHttpDate(response.expire_time, zone)

isExpired(response, t, zone) ==
    IF response.expire_time = <<>> THEN TRUE
    ELSE t > parseHttpDate(response.expire_time, zone)

RECURSIVE cacheUpdate(_, _)
cacheUpdate(c, cap) ==
    IF Cardinality(DOMAIN c.cache_map) >= cap /\ c.lru_list # <<>> THEN
        LET urlRemove == c.lru_list[Len(c.lru_list)]
            erased ==
                IF urlRemove \in DOMAIN c.cache_map
                    THEN [c EXCEPT
                            !.freed = @ \cup {c.cache_map[urlRemove].response},
                            !.cache_map =
                                Restrict(@, DOMAIN c.cache_map \ {urlRemove})]
                    ELSE c
        IN  cacheUpdate(
                [erased EXCEPT !.lru_list = SubSeq(@, 1, Len(@) - 1)], cap)
    ELSE c

\* a slip: the expired keys stay in the LRU list
cleanExpiredKeepsLRU(c, h, t, zone) ==
    LET gone == {u \in DOMAIN c.cache_map :
                    isExpired(h[c.cache_map[u].response], t, zone)}
    IN  [cache_map |-> Restrict(c.cache_map, DOMAIN c.cache_map \ gone),
         lru_list |-> c.lru_list,
         last_cleanup |-> t,
         freed |-> c.freed \cup {c.cache_map[u].response : u \in gone}]

cleanExpiredResponse(c, h, t, zone) ==
    LET gone == {u \in DOMAIN c.cache_map :
                    isExpired(h[c.cache_map[u].response], t, zone)}
    IN  [cache_map |-> Restrict(c.cache_map, DOMAIN c.cache_map \ gone),
         lru_list |-> SelectSeq(c.lru_list, LAMBDA e : e \notin gone),
         last_cleanup |-> t,
         freed |-> c.freed \cup {c.cache_map[u].response : u \in gone}]

CacheEntry(response, url) ==
    [response |-> response, url |-> url, last_checked |-> Epoch]

\* a slip: only the null test
putSkipsNullOnly(h, response) == response = NULL

\* put, the first test: nothing is done for this response
putSkips(h, response) ==
    response = NULL \/ h[response].cache_mode = CACHE_NO_STORE

\* a slip: the new response is deleted and the stored one kept
putReplaceKeepsOld(c, url, response) ==
    [c EXCEPT !.freed = @ \cup {response},
              !.lru_list = updateLRU(@, url)]

\* put, url found: delete the stored response, store the new one, touch
putReplace(c, url, response) ==
    [c EXCEPT !.freed = @ \cup {c.cache_map[url].response},
              !.cache_map[url].response = response,
              !.lru_list = updateLRU(@, url)]

\* put, url not found: make room, insert, touch
putInsert(c, url, response, cap) ==
    LET c2 == cacheUpdate(c, cap)
    IN  [c2 EXCEPT
            !.cache_map =
                [k \in DOMAIN c2.cache_map \cup {url} |->
                    IF k = url THEN CacheEntry(response, url)
                    ELSE c2.cache_map[k]],
            !.lru_list = updateLRU(@, url)]

\* put(url, response, log) on cache c at time t; interval and cap are the
\* cache's cleanup_interval and max_entries.
put(c, h, url, response, t, zone, interval, cap) ==
    IF putSkips(h, response) THEN c
    ELSE
        LET c1 == IF t - c.last_cleanup > interval
                      THEN cleanExpiredResponse(c, h, t, zone)
                      ELSE c
        IN  IF url \in DOMAIN c1.cache_map
                THEN putReplace(c1, url, response)
                ELSE putInsert(c1, url, response, cap)

\* a slip: the cache mode is tested before the expiry
getClassifyModeFirst(response, t, zone) ==
    IF response.cache_mode = CACHE_MUST_REVALIDATE THEN REQUIRES_VALIDATION
    ELSE IF isExpired(response, t, zone) THEN EXPIRED
    ELSE VALID

\* get, under the shared lock: what the stored response is taken for
getClassify(response, t, zone) ==
    IF isExpired(response, t, zone) THEN EXPIRED
    ELSE IF response.cache_mode = CACHE_IMMUTABLE THEN VALID
    ELSE IF response.cache_mode = CACHE_MUST_REVALIDATE THEN REQUIRES_VALIDATION
    ELSE VALID

size == Cardinality(DOMAIN cache_map)

TheCache ==
    [cache_map |-> cache_map, lru_list |-> lru_list,
     last_cleanup |-> last_cleanup, freed |-> freed]

SetCache(c) ==
    /\ cache_map' = c.cache_map
    /\ lru_list' = c.lru_list
    /\ last_cleanup' = c.last_cleanup
    /\ freed' = c.freed

(***************************************************************************)
(* What the origin servers send.  Date is the instant the head is made.    *)
(***************************************************************************)
MaxAge(n) == Dir("max-age", <<n>>)
Plain(k) == Dir(k, <<>>)
ETagV1 == <<"v1">>

\* Cache-Control: max-age=1
HeadMaxAge(d) ==
    ResponseHead(200, <<(<<MaxAge(1)>>)>>, <<d>>, <<>>, <<>>, <<>>)
\* Cache-Control: must-revalidate, max-age=0 with ETag: "v1"
HeadMustRevalidate(d) ==
    ResponseHead(200, <<(<<Plain("must-revalidate"), MaxAge(0)>>)>>, <<d>>,
                 <<>>, <<>>, ETagV1)
\* Cache-Control: no-store
HeadNoStore(d) ==
    ResponseHead(200, <<(<<Plain("no-store")>>)>>, <<d>>, <<>>, <<>>, <<>>)
\* Cache-Control: no-cache, no-store
HeadNoCacheNoStore(d) ==
    ResponseHead(200, <<(<<Plain("no-cache"), Plain("no-store")>>)>>, <<d>>,
                 <<>>, <<>>, <<>>)

\* a 200 without cache headers
HeadPlain(d) == ResponseHead(200, <<>>, <<d>>, <<>>, <<>>, <<>>)
\* Cache-Control: private, max-age=1
HeadPrivate(d) ==
    ResponseHead(200, <<(<<Plain("private"), MaxAge(1)>>)>>, <<d>>, <<>>, <<>>,
                 <<>>)

\* a 404 without cache headers
HeadNotFound(d) == ResponseHead(404, <<>>, <<d>>, <<>>, <<>>, <<>>)

\* the head of that name, made at d
OriginHead(name, d) ==
    IF name = "max-age=1" THEN HeadMaxAge(d)
    ELSE IF name = "must-revalidate, max-age=0" THEN HeadMustRevalidate(d)
    ELSE IF name = "no-store" THEN HeadNoStore(d)
    ELSE IF name = "no-cache, no-store" THEN HeadNoCacheNoStore(d)
    ELSE HeadNotFound(d)

\* the responses a caller of Cache::put holds
PutHeads == {"max-age=1", "must-revalidate, max-age=0", "no-cache, no-store"}

(***************************************************************************)
(* Observation.  hist.quiet[t]: no other thread's step changed the cache   *)
(* or the clock between t's call of get and its return.  hist.putdur[t]: a *)
(* put of t's key took effect between t's call of get and its return.      *)
(* hist.hit[t]: <<p>> when t's get ran undisturbed on a cache that stored  *)
(* p for its key, p fresh and not MUST_REVALIDATE; <<>> otherwise.         *)
(* hist.lastput[u]: the response of the last put of u that stored it.      *)
(* hist.call: the call of put that made the last step, if one did.         *)
(***************************************************************************)
InGet == {"get", "get_expired", "get_valid"}

NoCall == [op |-> "none", response |-> NULL]

HistInit ==
    [quiet |-> [t \in Threads |-> TRUE],
     putdur |-> [t \in Threads |-> FALSE],
     hit |-> [t \in Threads |-> <<>>],
     lastput |-> [u \in URLS |-> NULL],
     call |-> NoCall]

\* thread t calls get
HistCall(h, t) ==
    [h EXCEPT !.quiet[t] = TRUE, !.putdur[t] = FALSE, !.hit[t] = <<>>,
              !.call = NoCall]

\* thread t's get returns, from a state where the cache is (map, hp)
HistReturn(h, t, map, hp, url, time) ==
    [h EXCEPT
        !.hit[t] =
            IF /\ h.quiet[t]
               /\ url \in DOMAIN map
               /\ hp[map[url].response].expire_time # <<>>
               /\ time <= hp[map[url].response].expire_time[1]
               /\ hp[map[url].response].cache_mode # CACHE_MUST_REVALIDATE
                THEN <<map[url].response>>
                ELSE <<>>,
        !.call = NoCall]

\* url is used (a put of it, or a get of it that returns VALID): where the
\* order of use is observed (hist.used, most recent first), url goes first
HistUse(h, url) ==
    IF "used" \in DOMAIN h
        THEN [h EXCEPT !.used = <<url>> \o SelectSeq(@, LAMBDA e : e # url)]
        ELSE h

\* a step of thread t changes what another thread's get reads
HistDisturb(h, t) ==
    [h EXCEPT !.quiet = [x \in Threads |->
                            IF x # t /\ pc[x] \in InGet THEN FALSE ELSE @[x]],
              !.call = NoCall]

\* thread t's put(url, response) ran; stored: it got past the first test
HistPut(h, t, url, response, stored) ==
    LET d == IF stored THEN HistUse(HistDisturb(h, t), url) ELSE h
    IN  [d EXCEPT
            !.putdur = [x \in Threads |->
                           IF stored /\ x # t /\ pc[x] \in InGet
                                /\ req_url[x] = url
                               THEN TRUE ELSE @[x]],
            !.lastput[url] = IF stored THEN response ELSE @,
            !.call = [op |-> "put", response |-> response]]

\* ... and where the Host header of the storing request is observed
\* (hist.host), its value for the response put under url
HistHost(h, t, url, stored) ==
    IF "host" \in DOMAIN h /\ stored
        THEN [h EXCEPT !.host[url] = <<request[t].host, request[t].port>>]
        ELSE h

(***************************************************************************)
(* Cache::get, in the steps its locking makes: the section under the       *)
(* shared lock, then (after lock.unlock()) the section under the unique    *)
(* lock.                                                                   *)
(***************************************************************************)
GetReturns(t, status, response) ==
    /\ pc' = [pc EXCEPT ![t] = "returned"]
    /\ cache_res' = [cache_res EXCEPT ![t] = status]
    /\ cached_resp' = [cached_resp EXCEPT ![t] = response]
    /\ cac_res' = [cac_res EXCEPT ![t] = NULL]

\* cache.cpp 71-79, 95, 111-116: shared_lock; find; isExpired; getCacheMode
GetShared(t) ==
    /\ pc[t] = "get"
    /\ LET url == req_url[t] IN
        IF url \notin DOMAIN cache_map THEN
            /\ GetReturns(t, NOT_IN_CACHE, NULL)
            /\ hist' = HistReturn(hist, t, cache_map, heap, req_url[t], now)
        ELSE
            LET p == cache_map[url].response
                class == getClassify(heap[p], now, tz)
            IN
            IF class = EXPIRED THEN
                /\ pc' = [pc EXCEPT ![t] = "get_expired"]
                /\ cac_res' = [cac_res EXCEPT ![t] = p]
                /\ UNCHANGED <<cache_res, cached_resp, hist>>
            ELSE IF class = REQUIRES_VALIDATION THEN
                /\ GetReturns(t, REQUIRES_VALIDATION, p)
                /\ hist' = HistReturn(hist, t, cache_map, heap, req_url[t], now)
            ELSE
                /\ pc' = [pc EXCEPT ![t] = "get_valid"]
                /\ cac_res' = [cac_res EXCEPT ![t] = p]
                /\ UNCHANGED <<cache_res, cached_resp, hist>>
    /\ UNCHANGED <<now, envVars, request, server, tunnel, call, cacheVars, heap, req_url, request_count, txn>>

\* a get that erases the entry it finds expired
GetExpiredErases(t) ==
    /\ pc[t] = "get_expired"
    /\ IF req_url[t] \notin DOMAIN cache_map
           THEN /\ GetReturns(t, NOT_IN_CACHE, NULL)
                /\ UNCHANGED cacheVars
           ELSE /\ GetReturns(t, EXPIRED, cac_res[t])
                /\ cache_map' = Restrict(cache_map,
                                         DOMAIN cache_map \ {req_url[t]})
                /\ lru_list' = RemoveAll(lru_list, req_url[t])
                /\ UNCHANGED <<last_cleanup, freed>>
    /\ hist' = HistReturn(hist, t, cache_map, heap, req_url[t], now)
    /\ UNCHANGED <<now, envVars, request, server, tunnel, call, heap, req_url, request_count, txn>>

\* cache.cpp 81-92: unique_lock; find again; EXPIRED with cac_res
GetExpired(t) ==
    /\ pc[t] = "get_expired"
    /\ IF req_url[t] \notin DOMAIN cache_map
           THEN GetReturns(t, NOT_IN_CACHE, NULL)
           ELSE GetReturns(t, EXPIRED, cac_res[t])
    /\ hist' = HistReturn(hist, t, cache_map, heap, req_url[t], now)
    /\ UNCHANGED <<now, envVars, request, server, tunnel, call, cacheVars, heap, req_url, request_count, txn>>

\* cache.cpp 96-109 and 116-127: unique_lock; find again; last_checked;
\* updateLRU; VALID with the stored response
GetValid(t) ==
    /\ pc[t] = "get_valid"
    /\ LET url == req_url[t] IN
        IF url \notin DOMAIN cache_map THEN
            /\ GetReturns(t, NOT_IN_CACHE, NULL)
            /\ hist' = HistReturn(hist, t, cache_map, heap, req_url[t], now)
            /\ UNCHANGED cacheVars
        ELSE
            /\ cache_map' = [cache_map EXCEPT ![url].last_checked = now]
            /\ lru_list' = updateLRU(lru_list, url)
            /\ GetReturns(t, VALID, cache_map[url].response)
            /\ hist' = HistReturn(HistUse(HistDisturb(hist, t), url), t,
                                  cache_map, heap, req_url[t], now)
            /\ UNCHANGED <<last_cleanup, freed>>
    /\ UNCHANGED <<now, envVars, request, server, tunnel, call, heap, req_url, request_count, txn>>

Tick ==
    /\ now < MaxTime
    /\ now' = now + 1
    /\ hist' = [hist EXCEPT !.quiet = [x \in Threads |->
                                          IF pc[x] \in InGet THEN FALSE ELSE @[x]],
                            !.call = NoCall]
    /\ UNCHANGED <<envVars, request, server, tunnel, call, cacheVars, heap, getVars, request_count, txn>>

(***************************************************************************)
(* The cache under callers of its public operations (SpecCache).           *)
(***************************************************************************)
TxnInit ==
    [id |-> -1, client |-> <<>>, origin_conns |-> 0, origin_reqs |-> <<>>,
     log |-> <<>>, closes |-> 0, origin_reply |-> "", connects |-> <<>>]

NoTxn == [t \in Threads |-> TxnInit]

(***************************************************************************)
(* request.cpp.  What a client sends is its first line, as the sequence of *)
(* the words on it, the header lines after it and the bytes after the      *)
(* blank line; the buffer with none of them is the empty string.           *)
(***************************************************************************)
HostLine(host, port) == [name |-> "Host", host |-> host, port |-> port]
ContentLengthLine(n) == [name |-> "Content-Length", n |-> n]

ClientBuffer(line, headers, body) ==
    [line |-> line, headers |-> headers, body |-> body]

EmptyBuffer == ClientBuffer(<<>>, <<>>, <<>>)

\* the requests clients send
ClientRequest(name) ==
    IF name = "GET /a" THEN
        ClientBuffer(<<"GET", "/a", "HTTP/1.1">>, <<HostLine("x.test", "")>>,
                     <<>>)
    ELSE IF name = "POST /form" THEN
        ClientBuffer(<<"POST", "/form", "HTTP/1.0">>,
                     <<HostLine("x.test", "80"), ContentLengthLine(2)>>,
                     <<"a", "b">>)
    ELSE IF name = "CONNECT x.test:443" THEN
        ClientBuffer(<<"CONNECT", "x.test:443", "HTTP/1.1">>,
                     <<HostLine("x.test", "443")>>, <<>>)
    \* the target is on the request line only
    ELSE IF name = "CONNECT x.test:443 without Host" THEN
        ClientBuffer(<<"CONNECT", "x.test:443", "HTTP/1.1">>, <<>>, <<>>)
    \* the same host and path on another port
    ELSE IF name = "GET /a at x.test:8080" THEN
        ClientBuffer(<<"GET", "/a", "HTTP/1.1">>,
                     <<HostLine("x.test", "8080")>>, <<>>)
    ELSE IF name = "PUT /a" THEN
        ClientBuffer(<<"PUT", "/a", "HTTP/1.1">>, <<HostLine("x.test", "")>>,
                     <<"a">>)
    \* a request line with no target and no version
    ELSE IF name = "GET" THEN
        ClientBuffer(<<"GET">>, <<HostLine("x.test", "")>>, <<>>)
    \* a request line with no method
    ELSE IF name = "/a HTTP/1.1" THEN
        ClientBuffer(<<"/a", "HTTP/1.1">>, <<HostLine("x.test", "")>>, <<>>)
    ELSE EmptyBuffer

ClientRequests ==
    {"", "GET /a", "POST /form", "CONNECT x.test:443",
     "CONNECT x.test:443 without Host", "PUT /a", "GET", "/a HTTP/1.1"}

\* the request lines that have a method, a target and a version
WellFormed(buf) == Len(buf.line) = 3

\* Request::Request
Request(httpRequest) ==
    [httpRequest |-> httpRequest, method |-> "", requestHeader |-> <<>>,
     host |-> "", url |-> "", port |-> ""]

NoRequest == Request(EmptyBuffer)

\* what ss >> word leaves in word: the i-th word of the line, or nothing
Word(line, i) == IF i <= Len(line) THEN line[i] ELSE ""

\* setHeader: ss >> method >> url >> http_version
setHeader(rq, line) ==
    [rq EXCEPT !.requestHeader = line,
               !.method = Word(line, 1),
               !.url = Word(line, 2)]

\* setHostnameAndPort: the port is set only when the value has a colon
setHostnameAndPort(rq, h) ==
    IF h.port # ""
        THEN [rq EXCEPT !.host = h.host, !.port = h.port]
        ELSE [rq EXCEPT !.host = h.host]

RECURSIVE parseHeaderLines(_, _)
parseHeaderLines(rq, hs) ==
    IF hs = <<>> THEN rq
    ELSE parseHeaderLines(
             IF Head(hs).name = "Host" THEN setHostnameAndPort(rq, Head(hs))
                                       ELSE rq,
             Tail(hs))

\* parseRequest: the loop ends at the first empty line, so nothing is set
\* when the first line is empty; no statement of it throws
parseRequest(rq) ==
    IF rq.httpRequest.line = <<>> THEN rq
    ELSE parseHeaderLines(setHeader(rq, rq.httpRequest.line),
                          rq.httpRequest.headers)

\* Request::Request_line of a parsed request: method, url, " HTTP/1.1", the
\* Host line with the port unless it is 80, then the blank line
RequestHead(rq) ==
    [method |-> rq.method, url |-> rq.url, version |-> "HTTP/1.1",
     host |-> rq.host,
     port |-> IF rq.port # "" /\ rq.port # "80" THEN rq.port ELSE ""]

\* what is sent on an origin socket: a request head and the bytes after it
Sent(head, body) == [head |-> head, body |-> body]

(***************************************************************************)
(* Proxy::Proxy: running(false), no thread spawned.  server.threads is     *)
(* Proxy::threads, each std::thread with what joinable() says of it and    *)
(* the handler it was made for; server.handlers is the state of every      *)
(* handler thread spawned; server.run and server.stop are where the calls  *)
(* of run() and stop() are; server.listening: server_fd is open.           *)
(***************************************************************************)
\* no tunnel: nothing read, nothing written, no socket of it closed
NoTunnel ==
    [from_client |-> <<>>, to_origin |-> <<>>, from_origin |-> <<>>,
     to_client |-> <<>>, readable |-> {}, broken |-> {}, closed |-> <<>>]

\* no function applied yet
NoApply == [op |-> "none"]

ServerInit ==
    [running |-> FALSE, listening |-> TRUE, run |-> "idle", stop |-> "idle",
     threads |-> <<>>, handlers |-> <<>>]

\* The process runs in UTC (zone offset 0): what mktime makes of a GMT date
\* elsewhere is the parser's matter, not the cache's.
InitCommon ==
    /\ now = 1
    /\ tz = 0
    /\ max_entries \in 0..MaxEntries
    /\ cleanup_interval = MaxCleanSec
    /\ cache_map = <<>>
    /\ lru_list = <<>>
    /\ last_cleanup = now
    /\ heap = <<>>
    /\ freed = {}
    /\ pc = [t \in Threads |-> "idle"]
    /\ req_url = [t \in Threads |-> ""]
    /\ cac_res = [t \in Threads |-> NULL]
    /\ cache_res = [t \in Threads |-> ""]
    /\ cached_resp = [t \in Threads |-> NULL]
    /\ request_count = 0
    /\ txn = NoTxn
    /\ request = [t \in Threads |-> NoRequest]
    /\ server = ServerInit
    /\ tunnel = [t \in Threads |-> NoTunnel]
    /\ call = NoApply
    /\ hist = HistInit

\* a caller calls get(url, cache_res)
ApiGet(t, url) ==
    /\ pc[t] = "idle"
    /\ pc' = [pc EXCEPT ![t] = "get"]
    /\ req_url' = [req_url EXCEPT ![t] = url]
    /\ hist' = HistCall(hist, t)
    /\ UNCHANGED <<now, envVars, request, server, tunnel, call, cacheVars, heap, cac_res, cache_res,
                   cached_resp, request_count, txn>>

\* the caller has the result of get in hand and goes on
ApiReturn(t) ==
    /\ pc[t] = "returned"
    /\ pc' = [pc EXCEPT ![t] = "idle"]
    /\ cache_res' = [cache_res EXCEPT ![t] = ""]
    /\ cached_resp' = [cached_resp EXCEPT ![t] = NULL]
    /\ req_url' = [req_url EXCEPT ![t] = ""]
    /\ hist' = HistCall(hist, t)
    /\ UNCHANGED <<now, envVars, request, server, tunnel, call, cacheVars, heap, cac_res, request_count,
                   txn>>

\* put(url, response, log) with a response just parsed from head
PutParsed(t, url, head) ==
    /\ LET response == Len(heap) + 1
           h == Append(heap, parseResponse(OriginHead(head, now), tz))
       IN  /\ heap' = h
           /\ SetCache(put(TheCache, h, url, response, now, tz,
                           cleanup_interval, max_entries))
           /\ hist' = HistPut(hist, t, url, response,
                              h[response].cache_mode # CACHE_NO_STORE)
    /\ UNCHANGED <<now, envVars, request, server, tunnel, call, getVars, request_count, txn>>

\* a caller calls put(url, response, log) with a response it parsed
ApiPut(t, url, head) ==
    /\ Len(heap) < MaxResp
    /\ PutParsed(t, url, head)

\* a caller calls put(url, NULL, log)
ApiPutNull(t, url) ==
    /\ SetCache(put(TheCache, heap, url, NULL, now, tz, cleanup_interval,
                    max_entries))
    /\ hist' = HistPut(hist, t, url, NULL, FALSE)
    /\ UNCHANGED <<now, envVars, request, server, tunnel, call, heap, getVars, request_count, txn>>

\* put is one section under the unique lock: the thread that calls it has no
\* state of its own in the model.
Caller == "caller"

NextCache ==
    \/ Tick
    \/ \E t \in Getters : GetShared(t)
    \/ \E t \in Getters : GetExpired(t)
    \/ \E t \in Getters : GetValid(t)
    \/ \E t \in Getters, url \in URLS : ApiGet(t, url)
    \/ \E t \in Getters : ApiReturn(t)
    \/ \E url \in URLS, head \in PutHeads : ApiPut(Caller, url, head)
    \/ \E url \in URLS : ApiPutNull(Caller, url)

SpecCache == InitCommon /\ [][NextCache]_vars

(***************************************************************************)
(* The cache under puts of fresh responses and gets, over more keys than   *)
(* it holds, with the order of use observed and the clock at rest          *)
(* (SpecLRU).                                                              *)
(***************************************************************************)
LruKeys == {"x.test/a", "y.test/b", "z.test/c"}

InitLRU ==
    /\ now = 1
    /\ tz = 0
    /\ max_entries \in 0..MaxEntries
    /\ cleanup_interval = MaxCleanSec
    /\ cache_map = <<>>
    /\ lru_list = <<>>
    /\ last_cleanup = now
    /\ heap = <<>>
    /\ freed = {}
    /\ pc = [t \in Threads |-> "idle"]
    /\ req_url = [t \in Threads |-> ""]
    /\ cac_res = [t \in Threads |-> NULL]
    /\ cache_res = [t \in Threads |-> ""]
    /\ cached_resp = [t \in Threads |-> NULL]
    /\ request_count = 0
    /\ txn = NoTxn
    /\ request = [t \in Threads |-> NoRequest]
    /\ server = ServerInit
    /\ tunnel = [t \in Threads |-> NoTunnel]
    /\ call = NoApply
    /\ hist = [quiet |-> [t \in Threads |-> TRUE],
               putdur |-> [t \in Threads |-> FALSE],
               hit |-> [t \in Threads |-> <<>>],
               lastput |-> [u \in LruKeys |-> NULL],
               call |-> NoCall,
               used |-> <<>>]

\* a caller puts a fresh response
LruPut(url) ==
    /\ Len(heap) < MaxPuts
    /\ PutParsed(Caller, url, "max-age=1")

NextLRU ==
    \/ \E url \in LruKeys : LruPut(url)
    \/ \E t \in Getters, url \in LruKeys : ApiGet(t, url)
    \/ \E t \in Getters : GetShared(t)
    \/ \E t \in Getters : GetValid(t)
    \/ \E t \in Getters : ApiReturn(t)

SpecLRU == InitLRU /\ [][NextLRU]_vars

(***************************************************************************)
(* proxy.cpp: the GET transaction of a handler thread (Spec).  txn[t] is   *)
(* what the transaction of thread t has done so far: its request id, what  *)
(* it sent to the client, the origin connections it opened, the requests   *)
(* it sent to the origin and the lines it logged.                          *)
(***************************************************************************)
Log(id, msg) == [id |-> id, msg |-> msg]

\* What a read through a Response* yields: the object's fields, or, when the
\* object has been deleted, either the fields still in place or anything
\* else.
Garbage == [NewResponse EXCEPT !.status_code = -1, !.etag = <<"garbage">>]

Deref(p) == IF p \in freed THEN {heap[p], Garbage} ELSE {heap[p]}

\* the status line and the headers of the response, as sent
toString(r) ==
    ResponseHead(r.status_code, r.cache_control, r.date, r.expires,
                 r.last_modified, r.etag)

\* the request as sent to the origin, with the validators it carries
Request_line(url, IfNoneMatch, IfModifiedSince) ==
    [url |-> url, IfNoneMatch |-> IfNoneMatch,
     IfModifiedSince |-> IfModifiedSince]

\* the error page sendErrorResponse builds: a status line, Content-Type,
\* Content-Length and Connection: close
ErrorPage(status_code) ==
    ResponseHead(status_code, <<>>, <<>>, <<>>, <<>>, <<>>)

\* sendErrorResponse: the error page goes to the client, the line is logged
\* with id -1
sendErrorResponse(x, status_code) ==
    [x EXCEPT !.client = Append(@, ErrorPage(status_code)),
              !.log = Append(@, Log(-1, "Responding"))]

\* connectServer's line when getaddrinfo fails or no address accepts the
\* connection: it has no request id to log with
connectServerError == Log(-1, "ERROR Failed to connect to")

\* a step of the handler that is no call of put
HistStep(h) == [h EXCEPT !.call = NoCall]

\* receiveClient, a GET request parsed: the request id, the log line, then
\* processGet up to its call of cache.get(full_url, cache_result)
receiveClient(t, url) ==
    /\ pc[t] = "idle"
    /\ request_count < MaxReq
    /\ request_count' = request_count + 1
    /\ txn' = [txn EXCEPT ![t] =
                  [TxnInit EXCEPT !.id = request_count,
                                  !.log = <<Log(request_count, "new request")>>]]
    /\ pc' = [pc EXCEPT ![t] = "get"]
    /\ req_url' = [req_url EXCEPT ![t] = url]
    /\ hist' = HistCall(hist, t)
    /\ UNCHANGED <<now, envVars, request, server, tunnel, call, cacheVars, heap, cac_res, cache_res,
                   cached_resp>>

\* log_cache_request
CacheRequestLine(status) ==
    IF status = VALID THEN "in cache, valid"
    ELSE IF status = REQUIRES_VALIDATION THEN "in cache, requires validation"
    ELSE IF status = EXPIRED THEN "in cache, but expired at"
    ELSE "not in cache"

\* processGet after get returned: the cache line of the log (it reads
\* cached_resp->getExpireTime()), and, for VALID, the cached response sent
processGetCached(t) ==
    /\ pc[t] = "returned"
    /\ LET id == txn[t].id
           line == IF cached_resp[t] # NULL
                       THEN Log(id, CacheRequestLine(cache_res[t]))
                       ELSE Log(id, CacheRequestLine(NOT_IN_CACHE))
       IN
        IF cache_res[t] = VALID THEN
            \E v \in Deref(cached_resp[t]) :
                /\ txn' = [txn EXCEPT
                              ![t].client = Append(@, toString(v)),
                              ![t].log = @ \o <<line, Log(id, "Responding")>>]
                /\ pc' = [pc EXCEPT ![t] = "done"]
        ELSE IF cache_res[t] = REQUIRES_VALIDATION THEN
            /\ txn' = [txn EXCEPT ![t].log = Append(@, line)]
            /\ pc' = [pc EXCEPT ![t] = "validate"]
        ELSE
            /\ txn' = [txn EXCEPT ![t].log = Append(@, line)]
            /\ pc' = [pc EXCEPT ![t] = "fetch"]
    /\ hist' = HistStep(hist)
    /\ UNCHANGED <<now, envVars, request, server, tunnel, call, cacheVars, heap, req_url, cac_res, cache_res,
                   cached_resp, request_count>>

\* REQUIRES_VALIDATION: connectServer, then the conditional request built
\* from the cached response's ETag and Last-Modified
validateConnect(t, connected) ==
    /\ pc[t] = "validate"
    /\ LET id == txn[t].id IN
        IF ~connected THEN
            /\ txn' = [txn EXCEPT ![t] =
                          sendErrorResponse(
                              [@ EXCEPT !.log = @ \o
                                  <<connectServerError,
                                    Log(id, "ERROR Failed to connect to server for validation")>>],
                              502)]
            /\ pc' = [pc EXCEPT ![t] = "done"]
        ELSE
            \E v \in Deref(cached_resp[t]) :
                LET notes ==
                        (IF v.etag # <<>>
                             THEN <<Log(id, "NOTE Using ETag for validation")>>
                             ELSE <<>>)
                        \o (IF v.last_modified # <<>>
                                THEN <<Log(id,
                                    "NOTE Using Last-Modified for validation")>>
                                ELSE <<>>)
                IN
                IF v.etag = <<>> /\ v.last_modified = <<>> THEN
                    /\ txn' = [txn EXCEPT
                                  ![t].origin_conns = @ + 1,
                                  ![t].log = @ \o notes \o <<Log(id,
                                      "NOTE Validation not possible - no validator headers")>>]
                    /\ pc' = [pc EXCEPT ![t] = "fetch"]
                ELSE
                    /\ txn' = [txn EXCEPT
                                  ![t].origin_conns = @ + 1,
                                  ![t].origin_reqs = Append(@,
                                      Request_line(req_url[t], v.etag,
                                                   v.last_modified)),
                                  ![t].log = @ \o notes
                                             \o <<Log(id, "Requesting")>>]
                    /\ pc' = [pc EXCEPT ![t] = "validate_wait"]
    /\ hist' = HistStep(hist)
    /\ UNCHANGED <<now, envVars, request, server, tunnel, call, cacheVars, heap, req_url, cac_res, cache_res,
                   cached_resp, request_count>>

\* what receiveFromSocket and parseResponse make of the origin's answer to
\* the conditional request
ValidationReplies == {"throw", "empty", "unparsable", "304", "200"}

\* the answer to the conditional request: 304 sends the cached response,
\* anything else goes on to the full fetch
validateReceive(t, reply) ==
    /\ pc[t] = "validate_wait"
    /\ LET id == txn[t].id IN
        IF reply = "304" THEN
            \E v \in Deref(cached_resp[t]) :
                /\ txn' = [txn EXCEPT
                              ![t].client = Append(@, toString(v)),
                              ![t].log = @ \o
                                  <<Log(id, "Received"),
                                    Log(id, "NOTE Validation successful - using cached copy"),
                                    Log(id, "Responding")>>]
                /\ pc' = [pc EXCEPT ![t] = "done"]
        ELSE
            /\ txn' = [txn EXCEPT ![t].log = @ \o
                  (IF reply = "throw" THEN
                       <<Log(id, "ERROR Error receiving validation response")>>
                   ELSE IF reply = "empty" THEN
                       <<Log(id, "ERROR Empty validation response from server")>>
                   ELSE IF reply = "unparsable" THEN
                       <<Log(id, "ERROR Failed to parse validation response")>>
                   ELSE <<Log(id, "Received"),
                          Log(id, "NOTE Content changed - using new response")>>)]
            /\ pc' = [pc EXCEPT ![t] = "fetch"]
    /\ hist' = HistStep(hist)
    /\ UNCHANGED <<now, envVars, request, server, tunnel, call, cacheVars, heap, req_url, cac_res, cache_res,
                   cached_resp, request_count>>

\* the full fetch: log_requesting, connectServer, the request sent
fetchConnect(t, connected) ==
    /\ pc[t] = "fetch"
    /\ LET id == txn[t].id
           x == [txn[t] EXCEPT !.log = Append(@, Log(id, "Requesting"))]
       IN
        IF ~connected THEN
            /\ txn' = [txn EXCEPT ![t] =
                          sendErrorResponse(
                              [x EXCEPT !.log = Append(@, connectServerError)],
                              502)]
            /\ pc' = [pc EXCEPT ![t] = "done"]
        ELSE
            /\ txn' = [txn EXCEPT ![t] =
                          [x EXCEPT !.origin_conns = @ + 1,
                                    !.origin_reqs = Append(@,
                                        Request_line(req_url[t], <<>>, <<>>))]]
            /\ pc' = [pc EXCEPT ![t] = "fetch_wait"]
    /\ hist' = HistStep(hist)
    /\ UNCHANGED <<now, envVars, request, server, tunnel, call, cacheVars, heap, req_url, cac_res, cache_res,
                   cached_resp, request_count>>

\* handleCaching's log line
CachingLines(r, id) ==
    IF ~isCacheable(r, FALSE) THEN
        <<Log(id, IF r.status_code # 200
                      THEN "not cacheable because status code is not 200 OK"
                  ELSE IF r.no_store
                      THEN "not cacheable because no-store directive"
                  ELSE IF r.cache_mode = CACHE_NO_STORE
                      THEN "not cacheable because cache-control: no-store"
                  ELSE "not cacheable because unknow")>>
    ELSE IF r.expire_time # <<>> THEN <<Log(id, "cached, expires at")>>
    ELSE IF r.no_cache \/ r.must_revalidate
        THEN <<Log(id, "cached, but requires re-validation")>>
    ELSE <<>>

\* handleCaching(response, url, request_id) on cache c: the response is
\* deleted when it is not cacheable and put otherwise
handleCaching(c, h, response, url, t, zone, interval, cap) ==
    IF ~isCacheable(h[response], FALSE)
        THEN [c EXCEPT !.freed = @ \cup {response}]
        ELSE put(c, h, url, response, t, zone, interval, cap)

\* the heads an origin answers a GET with
FetchHeads ==
    {"max-age=1", "must-revalidate, max-age=0", "no-store",
     "no-cache, no-store", "404"}

\* what receiveFromSocket returns for the full fetch: nothing, an exception
\* (its own or the parser's), or a response head
FetchReplies == {"empty", "throw"} \cup FetchHeads

\* the origin's answer to the full fetch: nothing, something that makes
\* the parser or the socket throw, or a response, which is sent on to the
\* client and, with status 200, handed to handleCaching
fetchReceive(t, reply) ==
    /\ pc[t] = "fetch_wait"
    /\ pc' = [pc EXCEPT ![t] = "done"]
    /\ LET id == txn[t].id IN
        IF reply = "empty" THEN
            /\ txn' = [txn EXCEPT ![t] =
                          sendErrorResponse(
                              [@ EXCEPT !.log = Append(@, Log(id,
                                  "ERROR Empty response from server"))],
                              502)]
            /\ hist' = HistStep(hist)
            /\ UNCHANGED <<cacheVars, heap>>
        ELSE IF reply = "throw" THEN
            /\ txn' = [txn EXCEPT ![t] =
                          sendErrorResponse(
                              [@ EXCEPT !.log = Append(@, Log(id,
                                  "ERROR Failed to process server response"))],
                              502)]
            /\ hist' = HistStep(hist)
            /\ UNCHANGED <<cacheVars, heap>>
        ELSE
            /\ Len(heap) < MaxResp
            /\ LET server_response == Len(heap) + 1
                   h == Append(heap, parseResponse(OriginHead(reply, now), tz))
                   r == h[server_response]
                   received ==
                       <<Log(id, "Received")>>
                       \o (IF r.etag # <<>> THEN <<Log(id, "NOTE ETag")>>
                           ELSE <<>>)
                       \o (IF r.cache_control # <<>>
                               THEN <<Log(id, "NOTE Cache-Control")>>
                               ELSE <<>>)
               IN
                /\ heap' = h
                /\ IF r.status_code = 200 THEN
                       /\ txn' = [txn EXCEPT
                                     ![t].client = Append(@, toString(r)),
                                     ![t].log = @ \o received
                                                \o CachingLines(r, id)]
                       /\ SetCache(handleCaching(TheCache, h, server_response,
                                                 req_url[t], now, tz,
                                                 cleanup_interval, max_entries))
                       /\ hist' = IF isCacheable(r, FALSE)
                                      THEN HistPut(hist, t, req_url[t],
                                               server_response,
                                               r.cache_mode # CACHE_NO_STORE)
                                      ELSE HistStep(hist)
                   ELSE
                       /\ txn' = [txn EXCEPT
                                     ![t].client = Append(@, toString(r)),
                                     ![t].log = @ \o received
                                                \o <<Log(id, "Responding")>>]
                       /\ SetCache([TheCache EXCEPT
                                       !.freed = @ \cup {server_response}])
                       /\ hist' = HistStep(hist)
    /\ UNCHANGED <<now, envVars, request, server, tunnel, call, req_url, cac_res, cache_res, cached_resp,
                   request_count>>

\* handleClientRequest: receiveClient returned, the client socket is closed,
\* which tunnel[t] records for a tunnel that was open, and the thread ends
handleClientRequest(t) ==
    /\ pc[t] = "done"
    /\ pc' = [pc EXCEPT ![t] = "idle"]
    /\ txn' = [txn EXCEPT ![t] = TxnInit]
    /\ req_url' = [req_url EXCEPT ![t] = ""]
    /\ cache_res' = [cache_res EXCEPT ![t] = ""]
    /\ cached_resp' = [cached_resp EXCEPT ![t] = NULL]
    /\ tunnel' = [tunnel EXCEPT ![t].closed =
                      IF @ = <<"origin">> THEN <<"origin", "client">> ELSE @]
    /\ hist' = HistCall(hist, t)
    /\ UNCHANGED <<now, envVars, request, server, call, cacheVars, heap, cac_res, request_count>>

\* Proxy::Proxy: cache(50), request_count(0); the capacity is scaled to the
\* model's
Init ==
    /\ InitCommon
    /\ max_entries = MaxEntries

Next ==
    \/ Tick
    \/ \E t \in Threads, url \in URLS : receiveClient(t, url)
    \/ \E t \in Threads : GetShared(t)
    \/ \E t \in Threads : GetExpired(t)
    \/ \E t \in Threads : GetValid(t)
    \/ \E t \in Threads : processGetCached(t)
    \/ \E t \in Threads, connected \in BOOLEAN : validateConnect(t, connected)
    \/ \E t \in Threads, reply \in ValidationReplies : validateReceive(t, reply)
    \/ \E t \in Threads, connected \in BOOLEAN : fetchConnect(t, connected)
    \/ \E t \in Threads, reply \in FetchReplies : fetchReceive(t, reply)
    \/ \E t \in Threads : handleClientRequest(t)

Spec == Init /\ [][Next]_vars

(***************************************************************************)
(* proxy.cpp: receiveClient from the bytes of the client on, with the      *)
(* POST and CONNECT transactions and the bodies of the origin's responses  *)
(* (SpecRequest).  txn[t].closes counts the calls of close(client_fd),     *)
(* txn[t].origin_reply is the answer the origin gave, for observation.     *)
(* Content lengths are below the 65536 of the large-content branch.        *)
(***************************************************************************)
\* An answer of the origin: nothing within the timeout (burst "none"), a
\* failing poll ("error"), or bytes: a head, with the Content-Length header
\* absent ("none"), a number or other text, and the body bytes that come
\* with the head (first) and after it until the read ends (rest).
Answer(burst, head, length_header, length, is_chunked, first, rest) ==
    [burst |-> burst, head |-> head, length_header |-> length_header,
     length |-> length, is_chunked |-> is_chunked, first |-> first,
     rest |-> rest]

NoAnswer(burst) ==
    Answer(burst, ResponseHead(0, <<>>, <<>>, <<>>, <<>>, <<>>), "none", 0,
           FALSE, <<>>, <<>>)

OriginReply(name, d) ==
    IF name = "nothing" THEN NoAnswer("none")
    ELSE IF name = "poll error" THEN NoAnswer("error")
    \* bytes that are no HTTP response: status_stream >> status_code fails
    \* and leaves 0
    ELSE IF name = "garbage" THEN
        Answer("data", ResponseHead(0, <<>>, <<>>, <<>>, <<>>, <<>>), "none",
               0, FALSE, <<"g", "\n">>, <<>>)
    ELSE IF name = "Content-Length: x" THEN
        Answer("data", HeadMaxAge(d), "text", 0, FALSE, <<>>, <<>>)
    \* Content-Length: 4, two bytes with the head and two after it
    ELSE IF name = "complete" THEN
        Answer("data", HeadMaxAge(d), "number", 4, FALSE, <<"a", "\n">>,
               <<"b", "\n">>)
    \* Content-Length: 4, two bytes with the head, then the origin stalls
    \* and the read times out
    ELSE IF name = "truncated" THEN
        Answer("data", HeadMaxAge(d), "number", 4, FALSE, <<"a", "\n">>, <<>>)
    \* Transfer-Encoding: chunked, the chunks after the head
    ELSE IF name = "chunked" THEN
        Answer("data", HeadMaxAge(d), "none", 0, TRUE, <<>>,
               <<"1", "a", "0">>)
    ELSE IF name = "plain" THEN
        Answer("data", HeadPlain(d), "none", 0, FALSE, <<>>, <<>>)
    ELSE IF name = "private" THEN
        Answer("data", HeadPrivate(d), "none", 0, FALSE, <<>>, <<>>)
    ELSE IF name = "no-store" THEN
        Answer("data", HeadNoStore(d), "none", 0, FALSE, <<>>, <<>>)
    ELSE Answer("data", HeadNotFound(d), "none", 0, FALSE, <<>>, <<>>)

OriginReplies ==
    {"nothing", "poll error", "garbage", "Content-Length: x", "complete",
     "truncated", "chunked", "plain", "private", "no-store", "404"}

\* the answers that end before the Content-Length they declare
Truncated(a) ==
    /\ a.burst = "data"
    /\ a.length_header = "number"
    /\ Len(a.first) + Len(a.rest) < a.length

\* the body parseResponse rebuilds: every line of it followed by "\n"
reLine(bytes) ==
    IF bytes = <<>> \/ bytes[Len(bytes)] = "\n" THEN bytes
    ELSE Append(bytes, "\n")

\* parseResponse throws when stoi does not read the Content-Length
parseThrows(a) == a.length_header = "text"

\* parseResponse of the first burst, with is_chunked, content_length and
\* the body
parseResponseBody(a, zone) ==
    [parseResponse(a.head, zone) EXCEPT
        !.is_chunked = a.is_chunked,
        !.content_length = IF a.length_header = "number" THEN a.length
                                                         ELSE -1,
        !.header_length = IF a.length_header = "number" THEN <<a.length>>
                                                        ELSE <<>>,
        !.body = IF a.is_chunked THEN <<>> ELSE reLine(a.first)]

addChunkedData(r, chunk_data) ==
    IF r.is_chunked THEN [r EXCEPT !.body = @ \o chunk_data] ELSE r

addResponseBody(r, response_body) ==
    [r EXCEPT !.body = @ \o response_body,
              !.header_length = <<Len(r.body \o response_body)>>]

\* toString with the Content-Length header and the body
toStringBody(r) ==
    [head |-> toString(r), header_length |-> r.header_length,
     body |-> r.body]

\* the first burst as received, sent on before the chunks
RawInitial(a) ==
    [head |-> a.head, header_length |-> <<>>, body |-> a.first]

\* handleChunkResponse sends on what it receives
Chunks(bytes) == IF bytes = <<>> THEN <<>> ELSE <<[chunk |-> bytes]>>

\* what the client is sent for the response parsed from answer a, and the
\* response after the rest of the body was read as GET reads it
getBody(a, zone) ==
    LET p == parseResponseBody(a, zone) IN
    IF p.is_chunked THEN addChunkedData(p, a.rest)
    ELSE IF p.content_length > 0 THEN addResponseBody(p, a.rest)
    ELSE p

\* ... and as POST reads it
postBody(a, zone) ==
    LET p == parseResponseBody(a, zone) IN
    IF p.is_chunked THEN addChunkedData(p, a.rest)
    ELSE IF p.content_length > 0 /\ Len(p.body) < p.content_length
        THEN addResponseBody(p, a.rest)
    ELSE p

SentOn(a, r) ==
    IF r.is_chunked THEN <<RawInitial(a)>> \o Chunks(a.rest)
                    ELSE <<toStringBody(r)>>

\* receiveClient: the bytes of the client, parseRequest, the request id and
\* the dispatch on the method
receiveClientBuffer(t, name) ==
    /\ pc[t] = "idle"
    /\ request_count < MaxReq
    /\ LET buf == ClientRequest(name)
           rq == parseRequest(Request(buf))
           id == request_count
           x == [TxnInit EXCEPT !.id = id,
                                !.log = <<Log(id, "new request")>>]
       IN
        IF buf = EmptyBuffer THEN
            /\ txn' = [txn EXCEPT ![t] =
                          [TxnInit EXCEPT
                              !.log = <<Log(-1, "ERROR Empty request received")>>,
                              !.closes = 1]]
            /\ pc' = [pc EXCEPT ![t] = "done"]
            /\ request' = [request EXCEPT ![t] = NoRequest]
            /\ UNCHANGED <<request_count, req_url>>
            /\ hist' = HistStep(hist)
        ELSE
            /\ request' = [request EXCEPT ![t] = rq]
            /\ request_count' = request_count + 1
            /\ IF rq.method = "GET" THEN
                   /\ txn' = [txn EXCEPT ![t] = x]
                   /\ pc' = [pc EXCEPT ![t] = "get"]
                   /\ req_url' = [req_url EXCEPT ![t] = rq.host \o rq.url]
                   /\ hist' = HistCall(hist, t)
               ELSE IF rq.method = "POST" THEN
                   /\ txn' = [txn EXCEPT ![t] = x]
                   /\ pc' = [pc EXCEPT ![t] = "post"]
                   /\ UNCHANGED req_url
                   /\ hist' = HistStep(hist)
               ELSE IF rq.method = "CONNECT" THEN
                   /\ txn' = [txn EXCEPT ![t] = x]
                   /\ pc' = [pc EXCEPT ![t] = "connect"]
                   /\ UNCHANGED req_url
                   /\ hist' = HistStep(hist)
               ELSE
                   /\ txn' = [txn EXCEPT ![t] =
                                 [sendErrorResponse(
                                      [x EXCEPT !.log = Append(@, Log(id,
                                          "ERROR Method not found"))],
                                      501)
                                  EXCEPT !.closes = 1]]
                   /\ pc' = [pc EXCEPT ![t] = "done"]
                   /\ UNCHANGED req_url
                   /\ hist' = HistStep(hist)
    /\ UNCHANGED <<now, envVars, server, tunnel, call, cacheVars, heap, cac_res, cache_res,
                   cached_resp>>

\* processGet from receiveFromSocket(server_fd, 5) on: the answer parsed,
\* the rest of the body read, the response sent and, with status 200,
\* handed to handleCaching
fetchReceiveBody(t, name) ==
    /\ pc[t] = "fetch_wait"
    /\ pc' = [pc EXCEPT ![t] = "done"]
    /\ LET id == txn[t].id
           a == OriginReply(name, now)
           x == [txn[t] EXCEPT !.origin_reply = name]
       IN
        IF a.burst = "none" THEN
            /\ txn' = [txn EXCEPT ![t] =
                          sendErrorResponse(
                              [x EXCEPT !.log = Append(@, Log(id,
                                  "ERROR Empty response from server"))],
                              502)]
            /\ hist' = HistStep(hist)
            /\ UNCHANGED <<cacheVars, heap>>
        ELSE IF a.burst = "error" \/ parseThrows(a) THEN
            /\ txn' = [txn EXCEPT ![t] =
                          sendErrorResponse(
                              [x EXCEPT !.log = Append(@, Log(id,
                                  "ERROR Failed to process server response"))],
                              502)]
            /\ hist' = HistStep(hist)
            /\ UNCHANGED <<cacheVars, heap>>
        ELSE
            /\ Len(heap) < MaxResp
            /\ LET server_response == Len(heap) + 1
                   h == Append(heap, getBody(a, tz))
                   r == h[server_response]
                   received ==
                       (IF r.is_chunked
                            THEN <<Log(id, "NOTE Detected chunked encoding")>>
                            ELSE <<>>)
                       \o <<Log(id, "Received")>>
                       \o (IF r.etag # <<>> THEN <<Log(id, "NOTE ETag")>>
                           ELSE <<>>)
                       \o (IF r.cache_control # <<>>
                               THEN <<Log(id, "NOTE Cache-Control")>>
                               ELSE <<>>)
               IN
                /\ heap' = h
                /\ IF r.status_code = 200 THEN
                       /\ txn' = [txn EXCEPT ![t] =
                                     [x EXCEPT
                                         !.client = @ \o SentOn(a, r),
                                         !.log = @ \o received
                                                 \o CachingLines(r, id)]]
                       /\ SetCache(handleCaching(TheCache, h, server_response,
                                                 req_url[t], now, tz,
                                                 cleanup_interval, max_entries))
                       /\ hist' = IF isCacheable(r, FALSE)
                                      THEN HistHost(
                                               HistPut(hist, t, req_url[t],
                                                   server_response,
                                                   r.cache_mode # CACHE_NO_STORE),
                                               t, req_url[t],
                                               r.cache_mode # CACHE_NO_STORE)
                                      ELSE HistStep(hist)
                   ELSE
                       /\ txn' = [txn EXCEPT ![t] =
                                     [x EXCEPT
                                         !.client = @ \o SentOn(a, r),
                                         !.log = @ \o received
                                                 \o <<Log(id, "Responding")>>]]
                       /\ SetCache([TheCache EXCEPT
                                       !.freed = @ \cup {server_response}])
                       /\ hist' = HistStep(hist)
    /\ UNCHANGED <<now, envVars, request, server, tunnel, call, req_url, cac_res, cache_res,
                   cached_resp, request_count>>

\* processPost up to the request sent: log_requesting, connectServer,
\* send(server_fd, request.Request_line())
postConnect(t, connected) ==
    /\ pc[t] = "post"
    /\ LET id == txn[t].id
           x == [txn[t] EXCEPT !.log = Append(@, Log(id, "Requesting"))]
       IN
        IF ~connected THEN
            /\ txn' = [txn EXCEPT ![t] =
                          sendErrorResponse(
                              [x EXCEPT !.log = Append(@, connectServerError)],
                              502)]
            /\ pc' = [pc EXCEPT ![t] = "done"]
        ELSE
            /\ txn' = [txn EXCEPT ![t] =
                          [x EXCEPT !.origin_conns = @ + 1,
                                    !.origin_reqs = Append(@,
                                        Sent(RequestHead(request[t]), <<>>))]]
            /\ pc' = [pc EXCEPT ![t] = "post_wait"]
    /\ hist' = HistStep(hist)
    /\ UNCHANGED <<now, envVars, request, server, tunnel, call, cacheVars, heap, req_url,
                   cac_res, cache_res, cached_resp, request_count>>

\* processPost from receiveFromSocket(server_fd, 5) on; server_resp is
\* deleted at the end and never cached
postReceive(t, name) ==
    /\ pc[t] = "post_wait"
    /\ pc' = [pc EXCEPT ![t] = "done"]
    /\ LET id == txn[t].id
           a == OriginReply(name, now)
           x == [txn[t] EXCEPT !.origin_reply = name]
       IN
        IF a.burst = "none" THEN
            txn' = [txn EXCEPT ![t] =
                       sendErrorResponse(
                           [x EXCEPT !.log = Append(@, Log(id,
                               "ERROR Empty response from server"))],
                           502)]
        ELSE IF a.burst = "error" \/ parseThrows(a) THEN
            txn' = [txn EXCEPT ![t] =
                       sendErrorResponse(
                           [x EXCEPT !.log = Append(@, Log(id,
                               "ERROR Failed to process server response"))],
                           502)]
        ELSE
            LET r == postBody(a, tz) IN
            txn' = [txn EXCEPT ![t] =
                       [x EXCEPT
                           !.client = @ \o SentOn(a, r),
                           !.log = @ \o
                               (IF r.is_chunked
                                    THEN <<Log(id, "NOTE Detected chunked encoding")>>
                                ELSE IF r.content_length > 0
                                        /\ Len(reLine(a.first)) < r.content_length
                                    THEN <<Log(id, "NOTE Getting remaining body data")>>
                                ELSE <<>>)
                               \o <<Log(id, "Received"),
                                    Log(id, "Responding")>>]]
    /\ hist' = HistStep(hist)
    /\ UNCHANGED <<now, envVars, request, server, tunnel, call, cacheVars, heap, req_url,
                   cac_res, cache_res, cached_resp, request_count>>

\* stoi of the port string, 443 where it throws
stoiPort(port) ==
    IF port = "443" THEN 443
    ELSE IF port = "80" THEN 80
    ELSE IF port = "8080" THEN 8080
    ELSE 443

\* processConnect, its first lines: the host is request.host and the port
\* request.port, 443 when that is empty
ConnectTarget(rq) ==
    [host |-> rq.host, port |-> IF rq.port # "" THEN stoiPort(rq.port) ELSE 443]

\* connectServer(host, port) returns a socket: getaddrinfo resolves the
\* host, which it does for no empty name, and the origin accepts
connectServer(host, port, reachable) == host # "" /\ reachable

\* processConnect up to the relay loop: connectServer; Bad Gateway when it
\* fails; "200 Connection established" to the client otherwise
connectTxn(x, rq, reachable) ==
    LET to == ConnectTarget(rq)
        ok == connectServer(to.host, to.port, reachable)
        y == [x EXCEPT !.connects =
                  Append(@, [host |-> to.host, port |-> to.port, ok |-> ok])]
    IN
    IF ~ok THEN
        sendErrorResponse(
            [y EXCEPT !.log = @ \o
                <<connectServerError,
                  Log(x.id, "ERROR Failed to connect to server for connect")>>],
            502)
    ELSE
        [y EXCEPT !.origin_conns = @ + 1,
                  !.client = Append(@, [established |-> TRUE]),
                  !.log = Append(@, Log(x.id, "Responding"))]

\* processConnect: connectServer, "200 Connection established" to the
\* client, the relay until one side closes, the tunnel closed
processConnect(t, connected) ==
    /\ pc[t] = "connect"
    /\ pc' = [pc EXCEPT ![t] = "done"]
    /\ LET x == connectTxn(txn[t], request[t], connected) IN
        IF ~x.connects[Len(x.connects)].ok THEN
            txn' = [txn EXCEPT ![t] = x]
        ELSE
            txn' = [txn EXCEPT ![t] =
                       [x EXCEPT !.log = Append(@, Log(x.id, "Tunnel closed"))]]
    /\ hist' = HistStep(hist)
    /\ UNCHANGED <<now, envVars, request, server, tunnel, call, cacheVars, heap, req_url,
                   cac_res, cache_res, cached_resp, request_count>>

NextRequest ==
    \/ \E t \in Getters, name \in ClientRequests : receiveClientBuffer(t, name)
    \/ \E t \in Getters : GetShared(t)
    \/ \E t \in Getters : GetExpired(t)
    \/ \E t \in Getters : GetValid(t)
    \/ \E t \in Getters : processGetCached(t)
    \/ \E t \in Getters, connected \in BOOLEAN : fetchConnect(t, connected)
    \/ \E t \in Getters, name \in OriginReplies : fetchReceiveBody(t, name)
    \/ \E t \in Getters, connected \in BOOLEAN : postConnect(t, connected)
    \/ \E t \in Getters, name \in OriginReplies : postReceive(t, name)
    \/ \E t \in Getters, connected \in BOOLEAN : processConnect(t, connected)
    \/ \E t \in Getters : handleClientRequest(t)

SpecRequest == Init /\ [][NextRequest]_vars

(***************************************************************************)
(* proxy.cpp: run() and stop() with the handler threads (SpecStop).  What  *)
(* a handler does between its start and its end is the transaction of the  *)
(* other specifications.                                                   *)
(***************************************************************************)
proxyVars ==
    <<now, envVars, cacheVars, heap, getVars, request_count, txn, request,
      tunnel, call, hist>>

\* join() of every one of them returns: its handler has ended
AllJoined(threads, handlers) ==
    \A i \in 1..Len(threads) :
        threads[i].joinable => handlers[threads[i].handler] = "finished"

\* run(): running is set
runStart ==
    /\ server.run = "idle"
    /\ server' = [server EXCEPT !.running = TRUE, !.run = "loop"]
    /\ UNCHANGED proxyVars

\* run(): while (running) holds and select returns
runSelect ==
    /\ server.run = "loop"
    /\ server.running
    /\ server' = [server EXCEPT !.run = "selected"]
    /\ UNCHANGED proxyVars

\* run(): the second test of running ends the loop; otherwise ready <= 0
\* starts the next round and a readable listening socket goes on to accept
runCheck(ready) ==
    /\ server.run = "selected"
    /\ ready => Len(server.handlers) < MaxHandlers
    /\ server' = [server EXCEPT !.run =
                      IF ~server.running THEN "returned"
                      ELSE IF ready THEN "ready" ELSE "loop"]
    /\ UNCHANGED proxyVars

\* run(): accept(server_fd) gives a connection while the socket listens and
\* fails once stop() has closed it
runAccept ==
    /\ server.run = "ready"
    /\ server' = [server EXCEPT !.run =
                      IF server.listening THEN "accepted" ELSE "loop"]
    /\ UNCHANGED proxyVars

\* run(): under requested_mutex the joinable threads are joined and erased,
\* then the handler thread is made and detached
runSpawn ==
    /\ server.run = "accepted"
    /\ server.stop # "joining"
    /\ AllJoined(server.threads, server.handlers)
    /\ LET handler == Len(server.handlers) + 1 IN
        server' = [server EXCEPT
            !.run = "loop",
            !.handlers = Append(@, "running"),
            !.threads =
                Append(SelectSeq(@, LAMBDA th : ~th.joinable),
                       [joinable |-> FALSE, handler |-> handler])]
    /\ UNCHANGED proxyVars

\* run(): running is false, the loop ends
runReturn ==
    /\ server.run = "loop"
    /\ ~server.running
    /\ server' = [server EXCEPT !.run = "returned"]
    /\ UNCHANGED proxyVars

\* handleClientRequest returns: the handler thread ends
handlerEnd(i) ==
    /\ i <= Len(server.handlers)
    /\ server.handlers[i] = "running"
    /\ server' = [server EXCEPT !.handlers[i] = "finished"]
    /\ UNCHANGED proxyVars

\* stop(): nothing when the proxy is not running; otherwise running is
\* cleared
stopBegin ==
    /\ server.stop = "idle"
    /\ server' = IF ~server.running
                     THEN [server EXCEPT !.stop = "returned"]
                     ELSE [server EXCEPT !.running = FALSE,
                                         !.stop = "closing"]
    /\ UNCHANGED proxyVars

\* stop(): shutdown and close of the listening socket, then requested_mutex
stopClose ==
    /\ server.stop = "closing"
    /\ server' = [server EXCEPT !.listening = FALSE, !.stop = "joining"]
    /\ UNCHANGED proxyVars

\* stop(): under requested_mutex every joinable thread is joined, the list
\* is cleared, stop returns
stopJoin ==
    /\ server.stop = "joining"
    /\ AllJoined(server.threads, server.handlers)
    /\ server' = [server EXCEPT !.threads = <<>>, !.stop = "returned"]
    /\ UNCHANGED proxyVars

NextStop ==
    \/ runStart
    \/ runSelect
    \/ \E ready \in BOOLEAN : runCheck(ready)
    \/ runAccept
    \/ runSpawn
    \/ runReturn
    \/ \E i \in 1..MaxHandlers : handlerEnd(i)
    \/ stopBegin
    \/ stopClose
    \/ stopJoin

SpecStop == Init /\ [][NextStop]_vars

\* The thread in run() and the thread in stop() keep running: select returns
\* within its second, accept and the locks return.
SpecStopFair ==
    /\ SpecStop
    /\ WF_vars(runSelect)
    /\ WF_vars(\E ready \in BOOLEAN : runCheck(ready))
    /\ WF_vars(runAccept)
    /\ WF_vars(runSpawn)
    /\ WF_vars(runReturn)
    /\ WF_vars(stopClose)
    /\ WF_vars(stopJoin)

(***************************************************************************)
(* processConnect's relay loop, one pass of the while loop at a time       *)
(* (SpecTunnel).  The i-th byte a peer sends is the record of the peer and *)
(* i; tunnel[t] holds what the handler has read from either socket, what   *)
(* it has written to either, the sockets select reported readable, the     *)
(* sockets that accept no more bytes, and the sockets the handler closed.  *)
(***************************************************************************)
\* the bytes either peer sends through one tunnel
MaxBytes == 3

\* the requests that ask for a tunnel
ConnectRequests == {"CONNECT x.test:443", "CONNECT x.test:443 without Host"}

TunnelPcs == {"tunnel", "relay0", "relay1", "tunnel_end"}

\* int fd[2] = {server_fd, client_fd}
fd(i) == IF i = 0 THEN "server" ELSE "client"

\* a relay that writes to the socket it read from
sendToSame(i) == fd(i)

\* send(fd[1-i], ...)
sendTo(i) == fd(1 - i)

\* a loop whose test is tunnel_active alone
loopTestNoFlag(running, tunnel_active) == tunnel_active

\* while(running && tunnel_active)
loopTest(running, tunnel_active) == running /\ tunnel_active

\* the n bytes a peer sends after the first have
Bytes(side, have, n) == [j \in 1..n |-> [from |-> side, n |-> have + j]]

\* recv(fd[i], buffer, ...): what has been read from a socket
Read(tn, side) == IF side = "client" THEN tn.from_client ELSE tn.from_origin

Received(tn, side, bytes) ==
    IF side = "client" THEN [tn EXCEPT !.from_client = @ \o bytes]
                       ELSE [tn EXCEPT !.from_origin = @ \o bytes]

\* send(fd[1-i], buffer, ...): what has been written to a socket
Written(tn, side, bytes) ==
    IF side = "client" THEN [tn EXCEPT !.to_client = @ \o bytes]
                       ELSE [tn EXCEPT !.to_origin = @ \o bytes]

\* stop() run to its end by the signal handler on the thread it interrupts
stopDone(sv) ==
    IF ~sv.running THEN sv
    ELSE [sv EXCEPT !.running = FALSE, !.listening = FALSE, !.threads = <<>>,
                    !.stop = "returned"]

\* a handler thread of a server whose run() has begun reads a CONNECT
tunnelAccept(t, name) ==
    /\ server.run # "idle"
    /\ receiveClientBuffer(t, name)

\* processConnect up to the loop
connectTunnel(t, reachable) ==
    /\ pc[t] = "connect"
    /\ LET x == connectTxn(txn[t], request[t], reachable) IN
        /\ txn' = [txn EXCEPT ![t] = x]
        /\ pc' = [pc EXCEPT ![t] =
                     IF x.connects[Len(x.connects)].ok THEN "tunnel" ELSE "done"]
    /\ tunnel' = [tunnel EXCEPT ![t] = NoTunnel]
    /\ hist' = HistStep(hist)
    /\ UNCHANGED <<now, envVars, request, server, call, cacheVars, heap, req_url,
                   cac_res, cache_res, cached_resp, request_count>>

\* the loop's test and select: rv is what select returns, fds the sockets
\* it leaves set in readfds
tunnelSelect(t, rv, fds) ==
    /\ pc[t] = "tunnel"
    /\ LET id == txn[t].id IN
        IF ~loopTest(server.running, TRUE) THEN
            /\ rv = "timeout"
            /\ fds = {}
            /\ pc' = [pc EXCEPT ![t] = "tunnel_end"]
            /\ UNCHANGED <<txn, tunnel>>
        ELSE IF rv = "timeout" THEN
            /\ fds = {}
            /\ txn' = [txn EXCEPT ![t].log = Append(@,
                          Log(id, "NOTE Tunnel timeout after 10.5 seconds of inactivity"))]
            /\ pc' = [pc EXCEPT ![t] = "tunnel_end"]
            /\ UNCHANGED tunnel
        ELSE IF rv = "error" THEN
            /\ fds = {}
            /\ txn' = [txn EXCEPT ![t].log = Append(@,
                          Log(id, "ERROR Select error in tunnel"))]
            /\ pc' = [pc EXCEPT ![t] = "tunnel_end"]
            /\ UNCHANGED tunnel
        ELSE
            /\ fds # {}
            /\ tunnel' = [tunnel EXCEPT ![t].readable = fds]
            /\ pc' = [pc EXCEPT ![t] = "relay0"]
            /\ UNCHANGED txn
    /\ hist' = HistStep(hist)
    /\ UNCHANGED <<now, envVars, request, server, call, cacheVars, heap, req_url,
                   cac_res, cache_res, cached_resp, request_count>>

\* one pass of the for loop: recv from fd[i] when select reported it, n the
\* bytes received (0: none, or an error), then send to the other socket.
\* send writes all of them, or none ("fail"), or the first of them only:
\* when the socket breaks under it, after which it takes no byte, or when
\* the signal handler, which runs stop(), interrupts it.
tunnelRelay(t, n, sent) ==
    /\ pc[t] \in {"relay0", "relay1"}
    /\ LET i == IF pc[t] = "relay0" THEN 0 ELSE 1
           id == txn[t].id
           tn == tunnel[t]
           src == fd(i)
           dst == sendTo(i)
           bytes == Bytes(src, Len(Read(tn, src)), n)
           got == Received(tn, src, bytes)
           next == IF i = 0 THEN "relay1" ELSE "tunnel"
       IN
        IF src \notin tn.readable THEN
            /\ n = 0
            /\ sent = "all"
            /\ pc' = [pc EXCEPT ![t] = next]
            /\ UNCHANGED <<txn, tunnel, server>>
        ELSE IF n = 0 THEN
            /\ sent = "all"
            /\ txn' = [txn EXCEPT ![t].log = Append(@,
                          Log(id, "NOTE Connection closed by " \o src))]
            /\ pc' = [pc EXCEPT ![t] = "tunnel_end"]
            /\ UNCHANGED <<tunnel, server>>
        ELSE
            /\ Len(Read(tn, src)) + n <= MaxBytes
            /\ IF sent = "fail" THEN
                   /\ tunnel' = [tunnel EXCEPT ![t] = got]
                   /\ txn' = [txn EXCEPT ![t].log = Append(@,
                                 Log(id, "ERROR Failed to forward data to " \o dst))]
                   /\ pc' = [pc EXCEPT ![t] = "tunnel_end"]
                   /\ UNCHANGED server
               ELSE
                   /\ dst \notin tn.broken
                   /\ pc' = [pc EXCEPT ![t] = next]
                   /\ UNCHANGED txn
                   /\ IF sent = "all" THEN
                          /\ tunnel' = [tunnel EXCEPT ![t] =
                                           Written(got, dst, bytes)]
                          /\ UNCHANGED server
                      ELSE
                          /\ n > 1
                          /\ tunnel' = [tunnel EXCEPT ![t] =
                                 [Written(got, dst, SubSeq(bytes, 1, 1))
                                    EXCEPT !.broken =
                                        IF sent = "cut by error"
                                            THEN @ \cup {dst} ELSE @]]
                          /\ server' = IF sent = "cut by signal"
                                           THEN stopDone(server) ELSE server
    /\ hist' = HistStep(hist)
    /\ UNCHANGED <<now, envVars, request, call, cacheVars, heap, req_url,
                   cac_res, cache_res, cached_resp, request_count>>

\* after the loop: log_tunnel_closed, close(server_fd)
tunnelClose(t) ==
    /\ pc[t] = "tunnel_end"
    /\ txn' = [txn EXCEPT ![t].log = Append(@, Log(txn[t].id, "Tunnel closed"))]
    /\ tunnel' = [tunnel EXCEPT ![t].closed = Append(@, "origin")]
    /\ pc' = [pc EXCEPT ![t] = "done"]
    /\ hist' = HistStep(hist)
    /\ UNCHANGED <<now, envVars, request, server, call, cacheVars, heap, req_url,
                   cac_res, cache_res, cached_resp, request_count>>

SendResults == {"all", "fail", "cut by error", "cut by signal"}

NextTunnel ==
    \/ runStart
    \/ stopBegin
    \/ \E t \in Getters, name \in ConnectRequests : tunnelAccept(t, name)
    \/ \E t \in Getters, reachable \in BOOLEAN : connectTunnel(t, reachable)
    \/ \E t \in Getters, rv \in {"timeout", "error", "ready"},
          fds \in SUBSET {"server", "client"} : tunnelSelect(t, rv, fds)
    \/ \E t \in Getters, n \in 0..2, sent \in SendResults : tunnelRelay(t, n, sent)
    \/ \E t \in Getters : tunnelClose(t)
    \/ \E t \in Getters : handleClientRequest(t)

SpecTunnel == Init /\ [][NextTunnel]_vars

\* The handler thread keeps running: select returns within its 10.5
\* seconds, recv on a socket reported readable returns, send returns.
SpecTunnelFair ==
    /\ SpecTunnel
    /\ \A t \in Getters :
        /\ WF_vars(\E rv \in {"timeout", "error", "ready"},
                      fds \in SUBSET {"server", "client"} : tunnelSelect(t, rv, fds))
        /\ WF_vars(\E n \in 0..2, sent \in SendResults : tunnelRelay(t, n, sent))
        /\ WF_vars(tunnelClose(t))
        /\ WF_vars(handleClientRequest(t))

(***************************************************************************)
(* Functions applied to arguments drawn from bounded sets.  call is the    *)
(* function applied last, with its arguments and its value.                *)
(***************************************************************************)
\* the instants an HTTP-date names
MaxDate == 5

\* the zone offsets of the process, for mktime
Zones == {-1, 0, 1}

\* nothing has run; the process is in one of the zones
InitApply ==
    /\ now = 1
    /\ tz \in Zones
    /\ max_entries = MaxEntries
    /\ cleanup_interval = MaxCleanSec
    /\ cache_map = <<>>
    /\ lru_list = <<>>
    /\ last_cleanup = now
    /\ heap = <<>>
    /\ freed = {}
    /\ pc = [t \in Threads |-> "idle"]
    /\ req_url = [t \in Threads |-> ""]
    /\ cac_res = [t \in Threads |-> NULL]
    /\ cache_res = [t \in Threads |-> ""]
    /\ cached_resp = [t \in Threads |-> NULL]
    /\ request_count = 0
    /\ txn = NoTxn
    /\ request = [t \in Threads |-> NoRequest]
    /\ server = ServerInit
    /\ tunnel = [t \in Threads |-> NoTunnel]
    /\ call = NoApply
    /\ hist = HistInit

\* the values of Response::expire_time: empty, or an HTTP-date
ExpireTimes == {<<>>} \cup {<<d>> : d \in 0..MaxDate}

\* isExpired(response) called when the clock reads now
applyIsExpired(e) ==
    /\ call' = [op |-> "isExpired", expire_time |-> e, now |-> now,
                out |-> isExpired([NewResponse EXCEPT !.expire_time = e],
                                  now, tz)]
    /\ UNCHANGED <<now, envVars, cacheVars, heap, getVars, request_count, txn,
                   request, server, tunnel, hist>>

NextExpiry ==
    \/ Tick
    \/ \E e \in ExpireTimes : applyIsExpired(e)

SpecExpiry == InitApply /\ [][NextExpiry]_vars

(***************************************************************************)
(* parseCacheControl and setExpiredTime on the heads origins send          *)
(* (SpecCacheControl).                                                     *)
(***************************************************************************)
\* the directives of a Cache-Control header
Directives ==
    {MaxAge(1), MaxAge(3), Dir("s-maxage", <<2>>), Plain("public"),
     Plain("private"), Plain("must-revalidate"), Plain("no-store"),
     Plain("immutable")}

\* no Cache-Control header, or one with one or two directives
CacheControls ==
    {<<>>} \cup {<<(<<d>>)>> : d \in Directives}
           \cup {<<(<<d, e>>)>> : d \in Directives, e \in Directives}

\* Date, Expires and Last-Modified: absent, or the date of an instant
ControlHeads ==
    {ResponseHead(200, cc, date, expires, lm, <<>>) :
        cc \in CacheControls, date \in {<<>>, <<20>>},
        expires \in {<<>>, <<25>>}, lm \in {<<>>, <<0>>}}

\* parseResponse of a head: parseCacheControl, then setExpiredTime
applyParseCacheControl(head) ==
    /\ call' = [op |-> "parseCacheControl", head |-> head,
                out |-> parseResponse(head, tz)]
    /\ UNCHANGED <<now, envVars, cacheVars, heap, getVars, request_count, txn,
                   request, server, tunnel, hist>>

NextCacheControl == \E head \in ControlHeads : applyParseCacheControl(head)

SpecCacheControl == InitApply /\ [][NextCacheControl]_vars

(***************************************************************************)
(* The relay of a chunked response (SpecChunk): processGet's chunked       *)
(* branch and handleChunkResponse, one recv of the loop per step.  The     *)
(* origin's bytes are the head, the chunks and the five bytes of the last  *)
(* chunk "0\r\n\r\n"; the reads cut them anywhere after the head.          *)
(***************************************************************************)
MaxChunks == 2

ChunkNames == <<"chunk 1", "chunk 2", "chunk 3", "chunk 4">>

\* "0\r\n\r\n"
Terminator == <<"0", "\r", "\n", "\r", "\n">>

\* what the origin sends for a response of n chunks
ChunkedStream(n) == <<"head">> \o SubSeq(ChunkNames, 1, n) \o Terminator

\* a test on the bytes of the whole response, the first burst included
endsWithTerminatorOverall(inital_resp, response) ==
    LET all == inital_resp \o response IN
    /\ Len(all) >= 5
    /\ SubSeq(all, Len(all) - 4, Len(all)) = Terminator

\* if(response.size() >= 5){ string end(response.end() - 5, response.end());
\* if(end == "0\r\n\r\n") break; }: response holds what the loop has read
endsWithTerminator(inital_resp, response) ==
    /\ Len(response) >= 5
    /\ SubSeq(response, Len(response) - 4, Len(response)) = Terminator

\* processGet: the first burst holds the head and cut - 1 bytes after it;
\* it is sent to the client and handleChunkResponse begins with an empty
\* response vector
chunkBegin(n, cut) ==
    /\ call.op = "none"
    /\ LET stream == ChunkedStream(n) IN
        /\ cut \in 1..Len(stream)
        /\ call' = [op |-> "handleChunkResponse", pc |-> "recv",
                    origin |-> SubSeq(stream, cut + 1, Len(stream)),
                    ended |-> "open",
                    inital_resp |-> SubSeq(stream, 1, cut),
                    response |-> <<>>,
                    client |-> SubSeq(stream, 1, cut)]
    /\ UNCHANGED <<now, envVars, cacheVars, heap, getVars, request_count, txn,
                   request, server, tunnel, hist>>

\* the origin closes its side, or the connection fails
originEnds(how) ==
    /\ call.op = "handleChunkResponse"
    /\ call.pc = "recv"
    /\ call.ended = "open"
    /\ call' = [call EXCEPT !.ended = how]
    /\ UNCHANGED <<now, envVars, cacheVars, heap, getVars, request_count, txn,
                   request, server, tunnel, hist>>

\* one pass of the loop: recv returns n bytes (0: the origin has closed and
\* nothing is left, -1: an error); a recv on an open connection with nothing
\* to read fails when the socket's SO_RCVTIMEO of 10 s, set by
\* connectServer, has passed
chunkRecv(n) ==
    /\ call.op = "handleChunkResponse"
    /\ call.pc = "recv"
    /\ IF call.ended = "error" THEN
           /\ n = -1
           /\ call' = [call EXCEPT !.pc = "returned"]
       ELSE IF call.origin = <<>> THEN
           /\ n = IF call.ended = "close" THEN 0 ELSE -1
           /\ call' = [call EXCEPT !.pc = "returned"]
       ELSE
           /\ n \in 1..Len(call.origin)
           /\ LET buffer == SubSeq(call.origin, 1, n)
                  response == call.response \o buffer
              IN  call' = [call EXCEPT
                      !.origin = SubSeq(@, n + 1, Len(@)),
                      !.response = response,
                      !.client = @ \o buffer,
                      !.pc = IF endsWithTerminator(call.inital_resp, response)
                                 THEN "returned" ELSE "recv"]
    /\ UNCHANGED <<now, envVars, cacheVars, heap, getVars, request_count, txn,
                   request, server, tunnel, hist>>

NextChunk ==
    \/ \E n \in 0..MaxChunks, cut \in 1..(6 + MaxChunks) : chunkBegin(n, cut)
    \/ \E how \in {"close", "error"} : originEnds(how)
    \/ \E n \in -1..(5 + MaxChunks) : chunkRecv(n)

SpecChunk == InitApply /\ [][NextChunk]_vars

\* the handler's thread runs: its recv returns, with bytes, with the
\* origin's close or with the receive timeout
SpecChunkFair ==
    SpecChunk /\ WF_vars(\E n \in -1..(5 + MaxChunks) : chunkRecv(n))

(***************************************************************************)
(* The regular branch of processGet on its own (SpecBody): a response with *)
(* Content-Length: n whose body arrives partly with the head.              *)
(***************************************************************************)
MaxBody == 3

RECURSIVE Texts(_)
Texts(n) ==
    IF n = 0 THEN {<<>>}
    ELSE {Append(s, c) : s \in Texts(n - 1), c \in {"a", "\n"}}

\* the calls of receiveFromSocket on the origin's socket: the first burst,
\* and if (server_response->getContentLength() > 0) the rest
regularReads(p) == IF p.content_length > 0 THEN 2 ELSE 1

\* the origin sends the head and cut bytes of body, and the later read gets
\* the others, or none of them when the origin stalls
applyRegular(body, cut, stalls) ==
    /\ call.op = "none"
    /\ cut \in 0..Len(body)
    /\ stalls => cut < Len(body)
    /\ LET a == Answer("data", HeadMaxAge(2), "number", Len(body), FALSE,
                       SubSeq(body, 1, cut),
                       IF stalls THEN <<>>
                                 ELSE SubSeq(body, cut + 1, Len(body)))
           r == getBody(a, tz)
       IN  call' = [op |-> "regular", a |-> a,
                    reads |-> regularReads(parseResponseBody(a, tz)),
                    sent |-> SentOn(a, r)]
    /\ UNCHANGED <<now, envVars, cacheVars, heap, getVars, request_count, txn,
                   request, server, tunnel, hist>>

NextBody ==
    \E n \in 0..MaxBody : \E body \in Texts(n) : \E cut \in 0..MaxBody :
        \E stalls \in BOOLEAN : applyRegular(body, cut, stalls)

SpecBody == InitApply /\ [][NextBody]_vars

(***************************************************************************)
(* The response records of one GET handler (SpecOwnership): every          *)
(* new Response() and every delete of processGet, parseResponse and        *)
(* handleCaching, by the name of the pointer, and the record that put      *)
(* takes into the cache.                                                   *)
(***************************************************************************)
NoRecords == [news |-> <<>>, deletes |-> <<>>, cached |-> {}]

\* parseResponse called on the record owner: Response* response =
\* new Response() at its head, delete response in its catch.  (The delete
\* before "Status line cannot be read" needs an empty text, which no caller
\* passes.)
parseResponseRecords(owner, throws) ==
    LET response == owner \o "->parseResponse: response" IN
    [news |-> <<response>>,
     deletes |-> IF throws THEN <<response>> ELSE <<>>,
     cached |-> {}]

\* the revalidation of processGet with the reply v of the origin
validateRecords(v) ==
    IF v \in {"none", "throw", "empty"} THEN NoRecords
    ELSE LET p == parseResponseRecords("validation_resp", v = "unparsable") IN
         [news |-> <<"validation_resp">> \o p.news,
          deletes |-> p.deletes \o <<"validation_resp">>,
          cached |-> {}]

\* the fetch of processGet with the answer a of the origin
fetchRecords(a, zone) ==
    IF a.burst \in {"none", "error"} THEN
        [news |-> <<"server_response">>, deletes |-> <<"server_response">>,
         cached |-> {}]
    ELSE LET p == parseResponseRecords("server_response", parseThrows(a))
             r == getBody(a, zone)
             stored == ~parseThrows(a) /\ r.status_code = 200
                       /\ isCacheable(r, FALSE)
                       /\ r.cache_mode # CACHE_NO_STORE
         IN  [news |-> <<"server_response">> \o p.news,
              deletes |-> p.deletes \o (IF stored THEN <<>>
                                        ELSE <<"server_response">>),
              cached |-> IF stored THEN {"server_response"} ELSE {}]

\* one GET that is not answered from the cache: the revalidation, if there
\* is one, and unless it ends with 304 the fetch
applyProcessGet(v, name) ==
    /\ call.op = "none"
    /\ LET a == OriginReply(name, 2)
           val == validateRecords(v)
           fetch == IF v = "304" THEN NoRecords ELSE fetchRecords(a, tz)
       IN  call' = [op |-> "processGet", validation |-> v,
                    reply |-> IF v = "304" THEN "none" ELSE name,
                    news |-> val.news \o fetch.news,
                    deletes |-> val.deletes \o fetch.deletes,
                    cached |-> fetch.cached]
    /\ UNCHANGED <<now, envVars, cacheVars, heap, getVars, request_count, txn,
                   request, server, tunnel, hist>>

NextOwnership ==
    \E v \in {"none"} \cup ValidationReplies : \E name \in OriginReplies :
        applyProcessGet(v, name)

SpecOwnership == InitApply /\ [][NextOwnership]_vars

(***************************************************************************)
(* The sockets of one handler (SpecSockets): the origin connections that   *)
(* processGet opens with connectServer and every close() of                *)
(* handleClientRequest, receiveClient and processGet, by the name of the   *)
(* descriptor.                                                             *)
(***************************************************************************)
NoSockets == [opens |-> <<>>, closes |-> <<>>, returns |-> FALSE]

\* the revalidation block of processGet: v is "none" when the cache did not
\* ask for it, "connect fails", "no validators", or the origin's reply
validateSockets(v) ==
    LET fd1 == "validation server_fd" IN
    IF v = "none" THEN NoSockets
    ELSE IF v = "connect fails" THEN [NoSockets EXCEPT !.returns = TRUE]
    ELSE IF v \in {"no validators", "empty"}
        THEN [opens |-> <<fd1>>, closes |-> <<fd1>>, returns |-> FALSE]
    ELSE IF v = "304"
        THEN [opens |-> <<fd1>>, closes |-> <<fd1>>, returns |-> TRUE]
    \* receiveFromSocket throws, parseResponse throws, or the status is
    \* not 304: the block ends without close(server_fd)
    ELSE [opens |-> <<fd1>>, closes |-> <<>>, returns |-> FALSE]

\* the fetch of processGet: connectServer, then the answer a of the origin
fetchSockets(a, connected) ==
    LET fd2 == "server_fd" IN
    IF ~connected THEN [NoSockets EXCEPT !.returns = TRUE]
    ELSE IF a.burst = "none"
        THEN [opens |-> <<fd2>>, closes |-> <<fd2>>, returns |-> TRUE]
    \* the catch block closes server_fd and control reaches the close after it
    ELSE IF a.burst = "error" \/ parseThrows(a)
        THEN [opens |-> <<fd2>>, closes |-> <<fd2, fd2>>, returns |-> TRUE]
    ELSE [opens |-> <<fd2>>, closes |-> <<fd2>>, returns |-> TRUE]

\* handleClientRequest(client_fd, ...): receiveClient, then close(client_fd);
\* the handler owns client_fd from the start
applyHandleClientRequest(req, v, name, connected) ==
    /\ call.op = "none"
    /\ LET buf == ClientRequest(req)
           rq == parseRequest(Request(buf))
           val == validateSockets(v)
           fetch == IF val.returns THEN NoSockets
                    ELSE fetchSockets(OriginReply(name, 2), connected)
           get == rq.method = "GET"
           receiveClient_closes ==
               IF buf = EmptyBuffer THEN <<"client_fd">>
               ELSE IF rq.method \in {"GET", "POST", "CONNECT"} THEN <<>>
               ELSE <<"client_fd">>
       IN
        /\ rq.method \notin {"POST", "CONNECT"}
        /\ ~get => v = "none" /\ name = "nothing" /\ connected
        /\ val.returns => name = "nothing" /\ connected
        /\ ~connected => name = "nothing"
        /\ call' = [op |-> "handleClientRequest", request |-> req,
                    validation |-> v,
                    reply |-> IF get /\ ~val.returns /\ connected
                                  THEN name ELSE "none",
                    opens |-> <<"client_fd">>
                              \o (IF get THEN val.opens \o fetch.opens
                                         ELSE <<>>),
                    closes |-> (IF get THEN val.closes \o fetch.closes
                                       ELSE <<>>)
                               \o receiveClient_closes \o <<"client_fd">>]
    /\ UNCHANGED <<now, envVars, cacheVars, heap, getVars, request_count, txn,
                   request, server, tunnel, hist>>

NextSockets ==
    \E req \in {"", "GET /a", "PUT /a", "GET"} :
        \E v \in {"none", "connect fails", "no validators"}
                    \cup ValidationReplies :
            \E name \in OriginReplies : \E connected \in BOOLEAN :
                applyHandleClientRequest(req, v, name, connected)

SpecSockets == InitApply /\ [][NextSockets]_vars

(***************************************************************************)
(* SIGINT on the main thread (SpecSignal): signalHandler runs stop() on    *)
(* the thread that is inside run(), which stays where the signal found it  *)
(* until the handler returns.  The section of run() under requested_mutex  *)
(* is taken in two steps, so that the signal can fall inside it.           *)
(***************************************************************************)
SignalInit ==
    [running |-> FALSE, listening |-> TRUE, run |-> "idle", stop |-> "idle",
     threads |-> <<>>, handlers |-> <<>>, requested_mutex |-> "free"]

InitSignal ==
    /\ now = 1
    /\ tz = 0
    /\ max_entries = MaxEntries
    /\ cleanup_interval = MaxCleanSec
    /\ cache_map = <<>>
    /\ lru_list = <<>>
    /\ last_cleanup = now
    /\ heap = <<>>
    /\ freed = {}
    /\ pc = [t \in Threads |-> "idle"]
    /\ req_url = [t \in Threads |-> ""]
    /\ cac_res = [t \in Threads |-> NULL]
    /\ cache_res = [t \in Threads |-> ""]
    /\ cached_resp = [t \in Threads |-> NULL]
    /\ request_count = 0
    /\ txn = NoTxn
    /\ request = [t \in Threads |-> NoRequest]
    /\ server = SignalInit
    /\ tunnel = [t \in Threads |-> NoTunnel]
    /\ call = NoApply
    /\ hist = HistInit

\* run() goes on only while no signal handler is on its thread's stack
mainInRun == server.stop \in {"idle", "returned", "thrown"}

\* run(): std::lock_guard<std::mutex> lock(requested_mutex)
runLock ==
    /\ mainInRun
    /\ server.run = "accepted"
    /\ server.requested_mutex = "free"
    /\ server' = [server EXCEPT !.run = "locked", !.requested_mutex = "run"]
    /\ UNCHANGED proxyVars

\* run(): the joinable threads are joined and erased, the handler thread is
\* made and detached, the lock_guard releases the mutex
runSpawnLocked ==
    /\ mainInRun
    /\ server.run = "locked"
    /\ AllJoined(server.threads, server.handlers)
    /\ LET handler == Len(server.handlers) + 1 IN
        server' = [server EXCEPT
            !.run = "loop",
            !.requested_mutex = "free",
            !.handlers = Append(@, "running"),
            !.threads =
                Append(SelectSeq(@, LAMBDA th : ~th.joinable),
                       [joinable |-> FALSE, handler |-> handler])]
    /\ UNCHANGED proxyVars

\* signalHandler: global_proxy->stop() begins on the main thread, anywhere
\* in run()
signalStop ==
    /\ server.run # "returned"
    /\ stopBegin

\* stop(): lock_guard<mutex> lock(requested_mutex) when no one holds it, the
\* joins, threads.clear()
stopLockFree ==
    /\ server.requested_mutex = "free"
    /\ stopJoin

\* stop(): lock_guard<mutex> lock(requested_mutex) when the interrupted
\* run() holds it.  Locking a std::mutex the thread owns is undefined: it
\* blocks for ever, or lock() throws std::system_error, which run()'s catch
\* block receives
stopLockOwned(outcome) ==
    /\ server.stop = "joining"
    /\ server.requested_mutex = "run"
    /\ server' = IF outcome = "deadlock"
                     THEN [server EXCEPT !.stop = "deadlocked"]
                     ELSE [server EXCEPT !.stop = "thrown", !.run = "loop",
                                         !.requested_mutex = "free"]
    /\ UNCHANGED proxyVars

NextSignal ==
    \/ runStart
    \/ mainInRun /\ runSelect
    \/ mainInRun /\ \E ready \in BOOLEAN : runCheck(ready)
    \/ mainInRun /\ runAccept
    \/ runLock
    \/ runSpawnLocked
    \/ mainInRun /\ runReturn
    \/ \E i \in 1..MaxHandlers : handlerEnd(i)
    \/ signalStop
    \/ stopClose
    \/ stopLockFree
    \/ \E outcome \in {"deadlock", "system_error"} : stopLockOwned(outcome)

SpecSignal == InitSignal /\ [][NextSignal]_vars

\* the main thread keeps running, in run() or in the handler: select returns
\* within its second, accept and a free lock return
SpecSignalFair ==
    /\ SpecSignal
    /\ WF_vars(mainInRun /\ runSelect)
    /\ WF_vars(mainInRun /\ \E ready \in BOOLEAN : runCheck(ready))
    /\ WF_vars(mainInRun /\ runAccept)
    /\ WF_vars(runLock)
    /\ WF_vars(runSpawnLocked)
    /\ WF_vars(mainInRun /\ runReturn)
    /\ WF_vars(stopClose)
    /\ WF_vars(stopLockFree)
    /\ WF_vars(\E outcome \in {"deadlock", "system_error"} :
                  stopLockOwned(outcome))

(***************************************************************************)
(* GET requests that differ in the port of their Host header only          *)
(* (SpecHost): the handler of SpecRequest, with the Host value of the      *)
(* request that stored a response observed in hist.host.                   *)
(***************************************************************************)
HostRequests == {"GET /a", "GET /a at x.test:8080"}

HostReplies == {"nothing", "complete", "plain", "404"}

InitHost ==
    /\ now = 1
    /\ tz = 0
    /\ max_entries = MaxEntries
    /\ cleanup_interval = MaxCleanSec
    /\ cache_map = <<>>
    /\ lru_list = <<>>
    /\ last_cleanup = now
    /\ heap = <<>>
    /\ freed = {}
    /\ pc = [t \in Threads |-> "idle"]
    /\ req_url = [t \in Threads |-> ""]
    /\ cac_res = [t \in Threads |-> NULL]
    /\ cache_res = [t \in Threads |-> ""]
    /\ cached_resp = [t \in Threads |-> NULL]
    /\ request_count = 0
    /\ txn = NoTxn
    /\ request = [t \in Threads |-> NoRequest]
    /\ server = ServerInit
    /\ tunnel = [t \in Threads |-> NoTunnel]
    /\ call = NoApply
    /\ hist = [quiet |-> [t \in Threads |-> TRUE],
               putdur |-> [t \in Threads |-> FALSE],
               hit |-> [t \in Threads |-> <<>>],
               lastput |-> [u \in URLS |-> NULL],
               call |-> NoCall,
               host |-> [u \in URLS |-> <<>>]]

NextHost ==
    \/ \E t \in Getters, name \in HostRequests : receiveClientBuffer(t, name)
    \/ \E t \in Getters : GetShared(t)
    \/ \E t \in Getters : GetExpired(t)
    \/ \E t \in Getters : GetValid(t)
    \/ \E t \in Getters : processGetCached(t)
    \/ \E t \in Getters, connected \in BOOLEAN : fetchConnect(t, connected)
    \/ \E t \in Getters, name \in HostReplies : fetchReceiveBody(t, name)
    \/ \E t \in Getters : handleClientRequest(t)

SpecHost == InitHost /\ [][NextHost]_vars

(***************************************************************************)
(* A fetched response and the later cache hit for it (SpecHit): what       *)
(* processGet sends to the client of the fetch, and what it sends from     *)
(* the stored record with cached_resp->toString().                         *)
(***************************************************************************)
\* the answers of an origin: Content-Length: n with the body cut anywhere,
\* or chunked with some bytes of the chunks in the first burst
HitAnswers ==
    UNION {{Answer("data", HeadMaxAge(2), "number", Len(body), FALSE,
                   SubSeq(body, 1, cut), SubSeq(body, cut + 1, Len(body))) :
               cut \in 0..Len(body)} :
           body \in UNION {Texts(n) : n \in 1..MaxBody}}
    \cup
    {Answer("data", HeadMaxAge(2), "none", 0, TRUE, first, rest) :
        first \in UNION {Texts(n) : n \in 0..MaxBody},
        rest \in {<<>>, <<"0">>, <<"1", "a", "0">>}}

\* the bytes of what was sent, message after message: the head, the value
\* of Content-Length, the bytes after the head
RECURSIVE BodyBytes(_)
BodyBytes(sent) ==
    IF sent = <<>> THEN <<>>
    ELSE (IF "chunk" \in DOMAIN Head(sent) THEN Head(sent).chunk
                                           ELSE Head(sent).body)
         \o BodyBytes(Tail(sent))

SentBytes(sent) ==
    [head |-> sent[1].head, header_length |-> sent[1].header_length,
     body |-> BodyBytes(sent)]

\* the fetch of answer a stores the response, and a later GET of the url is
\* answered with it
applyFetchThenHit(a) ==
    /\ call.op = "none"
    /\ Len(a.first) + Len(a.rest) <= MaxBody + 3
    /\ a.is_chunked \/ Len(a.first) + Len(a.rest) = a.length
    /\ LET r == getBody(a, tz) IN
        /\ isCacheable(r, FALSE)
        /\ call' = [op |-> "hit", a |-> a,
                    fetched |-> SentBytes(SentOn(a, r)),
                    hit |-> SentBytes(<<toStringBody(r)>>)]
    /\ UNCHANGED <<now, envVars, cacheVars, heap, getVars, request_count, txn,
                   request, server, tunnel, hist>>

NextHit == \E a \in HitAnswers : applyFetchThenHit(a)

SpecHit == InitApply /\ [][NextHit]_vars

(***************************************************************************)
(* parseResponse and toString on the text (SpecRoundTrip).  A line is the  *)
(* sequence of its words and of the blanks and carriage returns between    *)
(* them; a buffer is its first line, its header lines, each the name       *)
(* before the colon and the line after it, and the bytes after the blank   *)
(* line.  The line feed that ends a line is what getline takes away.       *)
(***************************************************************************)
Buffer(status_line, header_lines, body) ==
    [status_line |-> status_line, header_lines |-> header_lines,
     body |-> body]

HeaderLine(key, value) == [key |-> key, value |-> value]

\* isspace
Blank(tok) == tok \in {" ", "\r"}

\* operator>> skips the white space before what it reads
RECURSIVE SkipBlanks(_)
SkipBlanks(line) ==
    IF line # <<>> /\ Blank(Head(line)) THEN SkipBlanks(Tail(line)) ELSE line

\* value.erase(0, value.find_first_not_of(" "))
RECURSIVE EraseLeadingSpaces(_)
EraseLeadingSpaces(value) ==
    IF value # <<>> /\ Head(value) = " " THEN EraseLeadingSpaces(Tail(value))
    ELSE value

\* value.erase(value.find_last_not_of("\r") + 1)
RECURSIVE EraseTrailingCR(_)
EraseTrailingCR(value) ==
    IF value # <<>> /\ value[Len(value)] = "\r"
        THEN EraseTrailingCR(SubSeq(value, 1, Len(value) - 1))
        ELSE value

\* the integer that operator>> and stoi read from a word, 0 when none
ReadInt(word) ==
    IF word = "200" THEN 200
    ELSE IF word = "404" THEN 404
    ELSE IF word = "2" THEN 2
    ELSE IF word = "4" THEN 4
    ELSE 0

\* operator<< of an integer
WriteInt(n) ==
    IF n = 200 THEN "200"
    ELSE IF n = 404 THEN "404"
    ELSE IF n = 2 THEN "2"
    ELSE IF n = 4 THEN "4"
    ELSE "0"

\* header[key] = value for each header line in turn
RECURSIVE HeaderMap(_, _)
HeaderMap(map, header_lines) ==
    IF header_lines = <<>> THEN map
    ELSE LET l == Head(header_lines)
             value == EraseTrailingCR(EraseLeadingSpaces(l.value))
         IN  HeaderMap([k \in DOMAIN map \cup {l.key} |->
                           IF k = l.key THEN value ELSE map[k]],
                       Tail(header_lines))

\* parseResponse(httpResponse), the fields toString writes and the two the
\* parser sets from the headers
parseResponseText(buf) ==
    LET after_version == Tail(SkipBlanks(buf.status_line))
        at_code == SkipBlanks(after_version)
        header == HeaderMap(<<>>, buf.header_lines)
        is_chunked == /\ "Transfer-Encoding" \in DOMAIN header
                      /\ \E i \in 1..Len(header["Transfer-Encoding"]) :
                             header["Transfer-Encoding"][i] = "chunked"
    IN  [http_version |-> Head(SkipBlanks(buf.status_line)),
         status_code |-> IF at_code = <<>> THEN 0 ELSE ReadInt(Head(at_code)),
         status_message |-> IF at_code = <<>> THEN <<>> ELSE Tail(at_code),
         header |-> header,
         is_chunked |-> is_chunked,
         content_length |->
             IF "Content-Length" \in DOMAIN header
                 THEN ReadInt(header["Content-Length"][1]) ELSE -1,
         body |-> IF is_chunked THEN <<>> ELSE reLine(buf.body)]

\* the header lines toString writes, one for each key: key, ": ", the value
RECURSIVE HeaderLines(_, _)
HeaderLines(header, keys) ==
    IF keys = {} THEN <<>>
    ELSE LET k == CHOOSE x \in keys : TRUE
         IN  <<HeaderLine(k, <<" ">> \o header[k] \o <<"\r">>)>>
                 \o HeaderLines(header, keys \ {k})

\* toString: version, " ", code, " ", message, "\r\n"; the headers; "\r\n"
\* and the body
toStringText(r) ==
    Buffer(<<r.http_version, " ", WriteInt(r.status_code), " ">>
               \o r.status_message \o <<"\r">>,
           HeaderLines(r.header, DOMAIN r.header),
           r.body)

\* what origins send
StatusLines ==
    {<<"HTTP/1.1", " ", "200", " ", "OK", "\r">>,
     <<"HTTP/1.1", " ", "404", " ", "Not", " ", "Found", "\r">>,
     <<"HTTP/1.1", " ", "200", "\r">>,
     <<"HTTP/1.1", " ", "200">>}

HeaderLineSets ==
    {<<>>,
     <<HeaderLine("Content-Length", <<" ", "2", "\r">>)>>,
     <<HeaderLine("Content-Length", <<"4", "\r">>)>>,
     <<HeaderLine("Transfer-Encoding", <<" ", "chunked", "\r">>)>>,
     <<HeaderLine("ETag", <<" ", " ", "v1", "\r">>),
       HeaderLine("Content-Length", <<" ", "2">>)>>,
     <<HeaderLine("ETag", <<" ", "v1", "\r">>),
       HeaderLine("ETag", <<" ", "v2", "\r">>)>>,
     <<HeaderLine("Cache-Control", <<" ", "max-age=1", "\r">>),
       HeaderLine("Transfer-Encoding", <<"chunked">>)>>}

Bodies == {<<>>, <<"a">>, <<"a", "\n">>, <<"a", "\n", "b">>, <<"a", "\n", "b", "\n">>}

Buffers ==
    {Buffer(s, h, b) : s \in StatusLines, h \in HeaderLineSets, b \in Bodies}

\* R = parseResponse(httpResponse)
applyParseResponse(buf) ==
    /\ call' = [op |-> "parseResponse", out |-> parseResponseText(buf)]
    /\ UNCHANGED <<now, envVars, cacheVars, heap, getVars, request_count, txn,
                   request, server, tunnel, hist>>

\* parseResponse(R.toString()) of the response parsed last
applyToString ==
    /\ call.op = "parseResponse"
    /\ call' = [op |-> "toString", r |-> call.out,
                out |-> parseResponseText(toStringText(call.out))]
    /\ UNCHANGED <<now, envVars, cacheVars, heap, getVars, request_count, txn,
                   request, server, tunnel, hist>>

NextRoundTrip ==
    \/ \E buf \in Buffers : applyParseResponse(buf)
    \/ applyToString

SpecRoundTrip == InitApply /\ [][NextRoundTrip]_vars

(***************************************************************************)
(* The cache under puts alone, over more keys than it holds, while the     *)
(* clock runs (SpecSweep).                                                 *)
(***************************************************************************)
\* the responses put: one that is fresh for a second, one that is stale
\* from the second after its Date
SweepHeads == {"max-age=1", "must-revalidate, max-age=0"}

\* a caller puts a response it parsed
SweepPut(url, head) ==
    /\ Len(heap) < MaxPuts
    /\ PutParsed(Caller, url, head)

NextSweep ==
    \/ Tick
    \/ \E url \in LruKeys, head \in SweepHeads : SweepPut(url, head)

SpecSweep == InitLRU /\ [][NextSweep]_vars

(***************************************************************************)
(*                         Properties of the cache                         *)
(***************************************************************************)
Stored(url) == url \in DOMAIN cache_map

GetReturnsTo(t) == pc[t] \in InGet /\ pc'[t] = "returned"

\* C1: under any interleaving of get and put, the response that get(u)
\* returns with VALID, REQUIRES_VALIDATION or EXPIRED is the response stored
\* for u at the moment get returns, never one a put has destroyed.
C1_GetReturnsStoredResponse ==
    [][\A t \in Threads :
        (GetReturnsTo(t)
            /\ cache_res'[t] \in {VALID, REQUIRES_VALIDATION, EXPIRED})
        => /\ cached_resp'[t] \notin freed'
           /\ req_url[t] \in DOMAIN cache_map'
           /\ cache_map'[req_url[t]].response = cached_resp'[t]]_vars

\* C3: in every reachable state the LRU list is a duplicate-free sequence
\* whose element set is the key set of the cache map.
C3_LruMatchesMap ==
    /\ \A i, j \in 1..Len(lru_list) : lru_list[i] = lru_list[j] => i = j
    /\ {lru_list[i] : i \in 1..Len(lru_list)} = DOMAIN cache_map

\* C3 witness: two keys are stored and a VALID get has moved the one stored
\* first to the front of the list, before the one stored last.
C3_Witness ==
    /\ Len(lru_list) = 2
    /\ \E t \in Threads :
          /\ pc[t] = "returned"
          /\ cache_res[t] = VALID
          /\ lru_list[1] = req_url[t]
          /\ cached_resp[t] < cache_map[lru_list[2]].response

\* C4: for a cache constructed with any max_entries, size() is at most
\* max_entries at every observation.
C4_SizeAtMostMaxEntries == size <= max_entries

\* What the specification calls expired: expire_time is empty or now is
\* later than the instant it names.
SpecExpired(r) == r.expire_time = <<>> \/ now > r.expire_time[1]

C10_PutNoStoreNoop ==
    [][(/\ hist'.call.op = "put"
        /\ \/ hist'.call.response = NULL
           \/ heap'[hist'.call.response].cache_mode = CACHE_NO_STORE)
        => /\ cache_map' = cache_map
           /\ lru_list' = lru_list
           /\ last_cleanup' = last_cleanup
           /\ freed' = freed]_vars

\* C10 witness: a put of a NO_STORE response has just returned while the
\* sweep interval had elapsed and an expired entry was (and is) stored.
C10_Witness ==
    /\ hist.call.op = "put"
    /\ hist.call.response # NULL
    /\ heap[hist.call.response].cache_mode = CACHE_NO_STORE
    /\ now - last_cleanup > cleanup_interval
    /\ \E u \in DOMAIN cache_map : SpecExpired(heap[cache_map[u].response])

(***************************************************************************)
(*                    Properties of the GET transaction                    *)
(***************************************************************************)
\* a step in which thread t reads through the pointer get returned: the
\* cache line of the log, the validators, the cached response sent
ReadsCached(t) ==
    \/ pc[t] = "returned" /\ cached_resp[t] # NULL /\ pc'[t] # "returned"
    \/ pc[t] = "validate" /\ pc'[t] \in {"fetch", "validate_wait"}
    \/ pc[t] = "validate_wait" /\ pc'[t] = "done"

\* C2: no cache entry is read after its destruction: whenever a GET handler
\* reads the response that get returned (to log it, to build the
\* conditional request from it, or to send it to the client), no
\* replacement, eviction or sweep by another thread has destroyed it.
C2_NoReadAfterDelete ==
    [][\A t \in Threads : ReadsCached(t) => cached_resp[t] \notin freed]_vars

\* C5: a 200 response to a GET that carries Cache-Control: no-store is
\* never inserted: no cache entry has no_store set.
C5_NoStoreNeverCached ==
    \A u \in DOMAIN cache_map : ~heap[cache_map[u].response].no_store

\* the response of the claim C6: 200, must-revalidate, max-age=0, an ETag
C6Entry(p) ==
    /\ p # NULL
    /\ heap[p].status_code = 200
    /\ heap[p].must_revalidate
    /\ heap[p].max_age = 0
    /\ heap[p].etag # <<>>

\* C6: once a 200 response with Cache-Control: must-revalidate, max-age=0
\* and an ETag is cached, a GET for its URL gets REQUIRES_VALIDATION from
\* the lookup, the conditional request sent to the origin carries
\* If-None-Match with the cached ETag, and on a 304 the client receives the
\* cached response.
C6_MustRevalidateIsRevalidated ==
    [][\A t \in Threads :
        /\ (GetReturnsTo(t) /\ hist.quiet[t] /\ Stored(req_url[t])
                /\ C6Entry(cache_map[req_url[t]].response))
            => /\ cache_res'[t] = REQUIRES_VALIDATION
               /\ cached_resp'[t] = cache_map[req_url[t]].response
        /\ (pc[t] = "validate" /\ pc'[t] = "validate_wait"
                /\ C6Entry(cached_resp[t]))
            => txn'[t].origin_reqs[Len(txn'[t].origin_reqs)].IfNoneMatch
                   = heap[cached_resp[t]].etag
        /\ (pc[t] = "validate_wait" /\ pc'[t] = "done"
                /\ C6Entry(cached_resp[t]))
            => txn'[t].client = <<toString(heap[cached_resp[t]])>>]_vars

\* C7: a GET whose lookup finds a fresh cached response that does not
\* require validation is answered from the cache: the client receives the
\* stored response and the transaction opens no origin connection and
\* sends no origin request.
C7_FreshHitServedFromCache ==
    \A t \in Threads :
        (pc[t] = "done" /\ hist.hit[t] # <<>>)
        => /\ txn[t].client = <<toString(heap[hist.hit[t][1]])>>
           /\ txn[t].origin_conns = 0
           /\ txn[t].origin_reqs = <<>>

(***************************************************************************)
(*                     Properties of the LRU eviction                      *)
(***************************************************************************)
\* the n first elements of q
FirstN(q, n) == {q[i] : i \in 1..(IF n < Len(q) THEN n ELSE Len(q))}

\* C11: eviction removes the least recently used key, a use being a put of
\* the key or a get of it that returned VALID: after any sequence of puts
\* of fresh responses (no sweep) the stored keys are exactly the
\* max_entries most recently used ones, and a get of any other key returns
\* NOT_IN_CACHE.
C11_LruSurvivors ==
    /\ [](DOMAIN cache_map = FirstN(hist.used, max_entries))
    /\ [][\A t \in Threads :
            (GetReturnsTo(t)
                /\ req_url[t] \notin FirstN(hist.used, max_entries))
            => cache_res'[t] = NOT_IN_CACHE]_vars

(***************************************************************************)
(*              Properties of the GET transaction, continued               *)
(***************************************************************************)
\* the requests of q that carry no validator
Unconditional(q) ==
    SelectSeq(q, LAMBDA r : r.IfNoneMatch = <<>> /\ r.IfModifiedSince = <<>>)

\* C12: in the revalidation state a 304 from the origin ends the
\* transaction by serving the cached response with no full fetch; any other
\* reply, and a cached response with neither ETag nor Last-Modified (no
\* conditional request is sent), leads to exactly one unconditional fetch
\* whose response is what the client receives.
C12_RevalidationOutcome ==
    [][\A t \in Threads :
        \* 304: the cached response, no further request
        /\ (pc[t] = "validate_wait" /\ pc'[t] = "done")
            => /\ txn'[t].client = <<toString(heap[cached_resp[t]])>>
               /\ txn'[t].origin_reqs = txn[t].origin_reqs
               /\ Unconditional(txn'[t].origin_reqs) = <<>>
        \* any other reply: on to the full fetch
        /\ (pc[t] = "validate_wait" /\ pc'[t] \notin {"validate_wait", "done"})
            => /\ pc'[t] = "fetch"
               /\ txn'[t].client = <<>>
               /\ Unconditional(txn'[t].origin_reqs) = <<>>
        \* connected: a conditional request exactly when there is a validator
        /\ (pc[t] = "validate" /\ pc'[t] \in {"fetch", "validate_wait"})
            => /\ txn'[t].client = <<>>
               /\ Unconditional(txn'[t].origin_reqs) = <<>>
               /\ LET r == heap[cached_resp[t]] IN
                  IF r.etag = <<>> /\ r.last_modified = <<>>
                      THEN pc'[t] = "fetch" /\ txn'[t].origin_reqs = <<>>
                      ELSE pc'[t] = "validate_wait"
                           /\ Len(txn'[t].origin_reqs) = 1
        \* the full fetch: one unconditional request
        /\ (pc[t] = "fetch" /\ pc'[t] = "fetch_wait")
            => Len(Unconditional(txn'[t].origin_reqs)) = 1
        \* its response is what the client receives
        /\ (pc[t] = "fetch_wait" /\ pc'[t] = "done" /\ Len(heap') > Len(heap))
            => txn'[t].client = <<toString(heap'[Len(heap')])>>]_vars

\* the lines of log q whose message is in M, in order
Lines(q, M) == SelectSeq(q, LAMBDA l : l.msg \in M)

\* the responses sent to the client that are no error page of the proxy
Delivered(x) ==
    SelectSeq(x.client,
              LAMBDA r : r \notin {ErrorPage(c) : c \in {400, 501, 502}})

\* C14: every GET transaction in which a response of the cache or of the
\* origin is delivered to the client logs 'Responding' with its id; a cache
\* miss that fetches a cacheable 200 logs, in this order, 'not in cache',
\* 'Requesting', 'Received', 'cached, expires at' and 'Responding'.
C14_RespondingLogged ==
    \A t \in Threads :
        pc[t] = "done" =>
            /\ Delivered(txn[t]) # <<>>
                => \E i \in 1..Len(txn[t].log) :
                       txn[t].log[i] = Log(txn[t].id, "Responding")
            /\ (\E i, j \in 1..Len(txn[t].log) :
                    /\ txn[t].log[i].msg = "not in cache"
                    /\ txn[t].log[j].msg = "cached, expires at")
                => Lines(txn[t].log,
                         {"not in cache", "Requesting", "Received",
                          "cached, expires at", "Responding"})
                   = <<Log(txn[t].id, "not in cache"),
                       Log(txn[t].id, "Requesting"),
                       Log(txn[t].id, "Received"),
                       Log(txn[t].id, "cached, expires at"),
                       Log(txn[t].id, "Responding")>>

\* C18: nothing is retried: within one client transaction the proxy sends
\* at most one request to the origin.
C18_AtMostOneOriginRequest ==
    \A t \in Threads : Len(txn[t].origin_reqs) <= 1

\* C19: once a transaction has its request id, every line logged for it,
\* its ERROR lines and the 'Responding' line of an error page included,
\* carries that id, and no two transactions share an id.
C19_LogLinesCarryId ==
    /\ \A t \in Threads :
           txn[t].id # -1
           => \A i \in 1..Len(txn[t].log) : txn[t].log[i].id = txn[t].id
    /\ \A t, u \in Threads :
           (t # u /\ txn[t].id # -1) => txn[t].id # txn[u].id

(***************************************************************************)
(*            Properties of the transactions from the bytes on             *)
(***************************************************************************)
\* C13: for a POST the bytes sent to the origin are the reconstructed
\* request head followed by every byte of the request body that the
\* received buffer holds, unchanged and in order.
C13_PostForwardsBody ==
    \A t \in Threads :
        pc[t] = "post_wait"
        => txn[t].origin_reqs
               = <<Sent(RequestHead(request[t]),
                        request[t].httpRequest.body)>>

\* C15: a request that fails to parse (its request line lacks the method,
\* the target or the version) is answered with 400 Bad Request; it is
\* never dispatched to the GET, POST or CONNECT flow and nothing of it
\* reaches an origin.
C15_MalformedRequestGets400 ==
    \A t \in Threads :
        (/\ pc[t] # "idle"
         /\ request[t].httpRequest # EmptyBuffer
         /\ ~WellFormed(request[t].httpRequest))
        => /\ pc[t] = "done"
           /\ txn[t].client = <<ErrorPage(400)>>
           /\ txn[t].origin_conns = 0
           /\ txn[t].origin_reqs = <<>>

\* a step in which thread t's connectServer fails
ConnectFails(t) ==
    /\ pc[t] \in {"fetch", "post", "connect"}
    /\ pc'[t] = "done"
    /\ txn'[t].origin_conns = txn[t].origin_conns

\* the answers that are empty or no HTTP response
Unparsable == {"nothing", "garbage", "Content-Length: x"}

\* a step in which thread t reads such an answer
ReadsUnparsable(t) ==
    /\ pc[t] \in {"fetch_wait", "post_wait"}
    /\ txn'[t].origin_reply \in Unparsable

\* C16: a method other than GET, POST and CONNECT is answered with 501, a
\* DNS or connect failure with 502, an empty or unparsable origin response
\* with 502; in each case the client is sent exactly one error page,
\* nothing is stored in the cache and the handler returns to close the
\* client socket.
C16_ErrorPages ==
    /\ [](\A t \in Threads :
            (/\ pc[t] # "idle"
             /\ request[t].httpRequest # EmptyBuffer
             /\ request[t].method \notin {"GET", "POST", "CONNECT"})
            => /\ pc[t] = "done"
               /\ txn[t].client = <<ErrorPage(501)>>
               /\ txn[t].origin_conns = 0)
    /\ [][\A t \in Threads :
            /\ (pc[t] = "idle" /\ pc'[t] = "done"
                    /\ request'[t].httpRequest # EmptyBuffer)
                => cache_map' = cache_map
            /\ (ConnectFails(t) \/ ReadsUnparsable(t))
                => /\ pc'[t] = "done"
                   /\ txn'[t].client = <<ErrorPage(502)>>
                   /\ cache_map' = cache_map]_vars

\* C17: an origin that stalls in the middle of its response until the read
\* times out is answered for with 502: the truncated response is not sent
\* to the client as a complete one and is not cached.
C17_TimeoutIs502 ==
    /\ \A t \in Threads :
           (pc[t] = "done" /\ Truncated(OriginReply(txn[t].origin_reply, now)))
           => txn[t].client = <<ErrorPage(502)>>
    /\ \A u \in DOMAIN cache_map :
           LET r == heap[cache_map[u].response]
           IN  r.content_length > 0 => Len(r.body) >= r.content_length

(***************************************************************************)
(*                      Properties of run() and stop()                     *)
(***************************************************************************)
\* C20: stop() waits for all active handler threads: when stop() returns,
\* every handler thread that run() spawned has completed.
C20_StopWaitsForHandlers ==
    [][(server.stop # "returned" /\ server'.stop = "returned")
        => \A i \in 1..Len(server'.handlers) :
               server'.handlers[i] = "finished"]_vars

\* stop() has cleared running
Stopping == ~server.running /\ server.stop # "idle" /\ server.run # "idle"

\* C21: after stop() has set running to false the acceptor accepts no
\* further connection and spawns no further handler, and run() leaves its
\* loop and returns.
C21_NoAcceptAfterStop ==
    /\ [][Stopping => /\ server'.run = "accepted" => server.run = "accepted"
                      /\ Len(server'.handlers) = Len(server.handlers)]_vars
    /\ (Stopping ~> server.run = "returned")

(***************************************************************************)
(*                       Properties of the tunnel                          *)
(***************************************************************************)
IsPrefix(s, of) == Len(s) <= Len(of) /\ SubSeq(of, 1, Len(s)) = s

\* C22: in an established tunnel the bytes written to the origin are a
\* prefix of the bytes read from the client and the bytes written to the
\* client a prefix of the bytes read from the origin: in order, none
\* dropped, duplicated or crossed.
C22_TunnelRelaysVerbatim ==
    \A t \in Threads :
        /\ IsPrefix(tunnel[t].to_origin, tunnel[t].from_client)
        /\ IsPrefix(tunnel[t].to_client, tunnel[t].from_origin)

\* both directions have relayed, the client's in two reads, and a send to
\* the client took less than it was given
C22_Witness ==
    \E t \in Threads :
        /\ pc[t] \in TunnelPcs
        /\ Len(tunnel[t].to_origin) = MaxBytes
        /\ tunnel[t].to_client # <<>>
        /\ Len(tunnel[t].to_client) < Len(tunnel[t].from_origin)

\* the lines of a transaction's log that say msg for request id
Count(log, id, msg) ==
    Cardinality({i \in 1..Len(log) : log[i] = Log(id, msg)})

\* what ends a tunnel, as the log has it
TunnelEnds ==
    {"NOTE Tunnel timeout after 10.5 seconds of inactivity",
     "ERROR Select error in tunnel",
     "NOTE Connection closed by server", "NOTE Connection closed by client",
     "ERROR Failed to forward data to server",
     "ERROR Failed to forward data to client"}

C24_ConnectTargetsRequestLine ==
    \A t \in Threads :
        (pc[t] = "done" /\ request[t].method = "CONNECT"
           /\ request[t].url = "x.test:443") =>
            /\ Len(txn[t].connects) = 1
            /\ LET c == txn[t].connects[1]
                   to == [host |-> "x.test", port |-> 443]
               IN  /\ c.host = to.host
                   /\ c.port = to.port
                   /\ c.ok => txn[t].client = <<[established |-> TRUE]>>
                   /\ ~c.ok => txn[t].client = <<ErrorPage(502)>>

(***************************************************************************)
(*                   Properties of what a GET stores                       *)
(***************************************************************************)
\* the three lines that say what was decided about caching a response
Decisions(log) ==
    SelectSeq(log, LAMBDA l :
        l.msg \in {"not cacheable because status code is not 200 OK",
                   "not cacheable because no-store directive",
                   "not cacheable because cache-control: no-store",
                   "not cacheable because unknow",
                   "cached, expires at",
                   "cached, but requires re-validation"})

CachedLines == {"cached, expires at", "cached, but requires re-validation"}

\* C25: for every 200 response to a GET exactly one of the three
\* cache-decision lines is logged, and it is a "cached" line exactly when
\* the response was stored.
C25_OneCacheDecisionLine ==
    [][\A t \in Getters :
        (pc[t] = "fetch_wait" /\ pc'[t] = "done" /\ Len(heap') > Len(heap)
           /\ heap'[Len(heap')].status_code = 200)
        => LET d == Decisions(txn'[t].log)
               stored == /\ req_url[t] \in DOMAIN cache_map'
                         /\ cache_map'[req_url[t]].response = Len(heap')
           IN  /\ Len(d) = 1
               /\ d[1].id = txn[t].id
               /\ d[1].msg \in CachedLines <=> stored]_vars

C27_ResponseRoundTrip ==
    call.op = "toString" =>
        /\ call.out.status_code = call.r.status_code
        /\ call.out.status_message = call.r.status_message
        /\ call.out.header = call.r.header
        /\ call.out.body = call.r.body
        /\ call.out.is_chunked = call.r.is_chunked
        /\ call.out.content_length = call.r.content_length

(***************************************************************************)
(*                Properties of get under concurrent puts                  *)
(***************************************************************************)
\* C28: get returns VALID only for a response that, at the moment get
\* returns, is fresh (expire_time present and not in the past) and not
\* MUST_REVALIDATE, whatever puts replaced the entry between the check
\* under the shared lock and the second lookup under the exclusive lock.
C28_ValidIsFreshAtReturn ==
    [][\A t \in Threads :
        (pc[t] = "get_valid" /\ pc'[t] = "returned" /\ cache_res'[t] = VALID)
        => LET r == heap'[cached_resp'[t]]
           IN  /\ cached_resp'[t] \notin freed'
               /\ r.expire_time # <<>>
               /\ ~(now' > parseHttpDate(r.expire_time, tz))
               /\ r.cache_mode # CACHE_MUST_REVALIDATE]_vars

(***************************************************************************)
(*                  Properties of what enters the cache                    *)
(***************************************************************************)
\* the response stored for each key
Contents == [u \in DOMAIN cache_map |-> cache_map[u].response]

\* C29: every entry of the cache was inserted by a GET transaction and
\* holds a 200 response whose visibility is not PRIVATE; POST, CONNECT and
\* GETs answered with another status leave the cache as it was.
C29_OnlyGet200NonPrivateStored ==
    /\ [](\A u \in DOMAIN cache_map :
            LET r == heap[cache_map[u].response]
            IN  /\ cache_map[u].response \notin freed
                /\ r.status_code = 200
                /\ r.cache_visibility # CACHE_PRIVATE)
    /\ [][Contents' # Contents =>
            \E t \in Threads :
                /\ request[t].method = "GET"
                /\ pc[t] = "fetch_wait" /\ pc'[t] = "done"
                /\ Len(heap') = Len(heap) + 1
                /\ heap'[Len(heap')].status_code = 200
                /\ heap'[Len(heap')].cache_visibility # CACHE_PRIVATE
                /\ Contents'[req_url[t]] = Len(heap')]_vars

\* a GET was answered with a private 200 that was not stored, while the
\* cache holds what an earlier GET stored for the key
C29_Witness ==
    \E t \in Threads :
        /\ pc[t] = "done"
        /\ request[t].method = "GET"
        /\ txn[t].origin_reply = "private"
        /\ req_url[t] \in DOMAIN cache_map
        /\ cache_map[req_url[t]].response # Len(heap)

(***************************************************************************)
(*                       Properties of the sweep                           *)
(***************************************************************************)
Range(l) == {l[i] : i \in 1..Len(l)}

Parsed == IF call.head.cache_control = <<>> THEN <<>>
          ELSE call.head.cache_control[1]

\* C31: expire_time is derived by the first matching rule: Date and
\* max_age > 0 give Date + max_age; else Expires gives its value; else
\* must_revalidate with Date gives Date; else, unless NO_STORE, Last-Modified
\* and Date give Date + (Date - Last-Modified)/10; else it stays empty.  A
\* response with Date and "max-age=N", N > 0, followed by any other
\* directive gets Date + N.
C31_ExpireTimePriority ==
    call.op = "parseCacheControl" =>
        LET h == call.head
            r == call.out
        IN  /\ r.expire_time =
                 IF h.date # <<>> /\ r.max_age > 0
                     THEN <<h.date[1] + r.max_age>>
                 ELSE IF h.expires # <<>> THEN h.expires
                 ELSE IF r.must_revalidate /\ h.date # <<>> THEN h.date
                 ELSE IF r.cache_mode # CACHE_NO_STORE
                         /\ h.last_modified # <<>> /\ h.date # <<>>
                     THEN <<h.date[1]
                              + CDiv(h.date[1] - h.last_modified[1], 10)>>
                 ELSE <<>>
            /\ (h.date # <<>> /\ Len(Parsed) = 2 /\ Parsed[1].k = "max-age"
                  /\ Parsed[2].k \notin {"max-age", "s-maxage"})
                   => r.expire_time = <<h.date[1] + Parsed[1].v[1]>>

\* what the directives d1, d2, ... make of max_age when s-maxage=N is
\* applied exactly under PUBLIC visibility, overrides max-age and makes
\* every later max-age ignored, and no other directive touches max_age:
\* st is [max_age, visibility, issmax_age]
RECURSIVE MaxAgeAfter(_, _)
MaxAgeAfter(st, ds) ==
    IF ds = <<>> THEN st.max_age
    ELSE LET d == Head(ds)
             next ==
                 IF d.k = "private" THEN [st EXCEPT !.visibility = CACHE_PRIVATE]
                 ELSE IF d.k = "public" THEN [st EXCEPT !.visibility = CACHE_PUBLIC]
                 ELSE IF d.k = "max-age" /\ ~st.issmax_age
                     THEN [st EXCEPT !.max_age = d.v[1]]
                 ELSE IF d.k = "s-maxage" /\ st.visibility = CACHE_PUBLIC
                     THEN [st EXCEPT !.max_age = d.v[1], !.issmax_age = TRUE]
                 ELSE st
         IN  MaxAgeAfter(next, Tail(ds))

\* C32: a directive s-maxage=N is applied exactly when the visibility is
\* PUBLIC: it sets max_age to N over any earlier max-age and every later
\* max-age is ignored; a directive that is not s-maxage never changes
\* max_age through the s-maxage rule.
C32_SMaxAgeRule ==
    call.op = "parseCacheControl" =>
        call.out.max_age =
            MaxAgeAfter([max_age |-> -1, visibility |-> CACHE_PUBLIC,
                         issmax_age |-> FALSE], Parsed)

\* C33: for a chunked origin response the client receives the first burst
\* followed by every chunk read afterwards, in the origin's order and as
\* soon as it is read, and the relay loop ends once the data received end
\* with "0\r\n\r\n", wherever the reads cut them, the first burst included.
C33_ChunkRelay ==
    /\ [](call.op = "handleChunkResponse"
            => call.client = call.inital_resp \o call.response)
    /\ []((call.op = "handleChunkResponse"
            /\ endsWithTerminatorOverall(call.inital_resp, call.response))
            => call.pc = "returned")
    /\ (call.op = "handleChunkResponse")
         ~> (call.op = "handleChunkResponse" /\ call.pc = "returned")

\* C34: for a non-chunked GET response with 0 < content_length <= 65536 the
\* handler reads the origin once more only if the first burst is short of
\* the announced body; when the burst is complete the response is
\* forwarded without a further read, with the origin's Content-Length
\* value and body bytes.
C34_RegularBody ==
    (call.op = "regular" /\ call.a.length > 0 /\ call.a.length <= 65536) =>
        /\ call.reads = 2 <=> Len(call.a.first) < call.a.length
        /\ Len(call.a.first) = call.a.length =>
               /\ Len(call.sent) = 1
               /\ call.sent[1].header_length = <<call.a.length>>
               /\ call.sent[1].body = call.a.first

\* C35: every response record a handler constructs (the fetched response,
\* the validation response, any record allocated while parsing) is at the
\* end of the handler either owned by the cache or destroyed exactly once:
\* none is leaked and none is destroyed twice.
C35_RecordsOwnedOrDestroyedOnce ==
    call.op = "processGet" =>
        \A i \in DOMAIN call.news :
            LET deleted == Cardinality({j \in DOMAIN call.deletes :
                                          call.deletes[j] = call.news[i]})
            IN  IF call.news[i] \in call.cached THEN deleted = 0
                                                ELSE deleted = 1

\* C36: every socket a handler owns is closed exactly once on every path:
\* each origin connection opened by connectServer, the revalidation's
\* included, is closed before the handler ends, and neither an origin
\* socket nor the client socket is closed a second time.
C36_SocketsClosedOnce ==
    call.op = "handleClientRequest" =>
        \A i \in DOMAIN call.opens :
            Cardinality({j \in DOMAIN call.closes :
                           call.closes[j] = call.opens[i]}) = 1

\* C37: stop() always terminates, also when the SIGINT handler calls it on
\* the main thread while run() on that thread is inside the section that
\* holds requested_mutex: shutdown never deadlocks and the process reaches
\* its exit.
C37_StopTerminates ==
    (server.stop \notin {"idle", "returned", "thrown"})
        ~> (server.stop \in {"returned", "thrown"} /\ server.run = "returned")

\* C38: two GET requests whose Host header values differ, the same host
\* with different ports included, never share a cache entry: a GET is
\* answered from the cache only with a response that was fetched for the
\* same Host header value and the same path.
C38_HostValuesDoNotShare ==
    \A t \in Getters :
        (/\ pc[t] = "returned"
         /\ cache_res[t] = VALID
         /\ cached_resp[t] # NULL
         /\ hist.lastput[req_url[t]] = cached_resp[t])
            => hist.host[req_url[t]] = <<request[t].host, request[t].port>>

\* C39: the bytes a client receives on a cache hit for u equal the bytes
\* that were delivered to the client of the transaction that fetched and
\* stored the response, for non-chunked and for chunked responses, the body
\* bytes that came in the first burst with the head included.
C39_HitEqualsFetched ==
    call.op = "hit" => call.hit = call.fetched

=============================================================================
